---- MODULE Spec2Model ----
(***************************************************************************)
(* Model of the SWOT statistics extraction of API_EPG:                     *)
(*   - HromadaEconomyAPI.process_swot_statistics (src/hromada_economy.py)  *)
(*     with its nested tree walk find_statistics, and                      *)
(*   - SWOTProcessor.extract_statistics (src/swot_processor.py) with its   *)
(*     nested find_field and remove_cadastr_numbers.                       *)
(*                                                                         *)
(* A decoded JSON value is a tagged record:                                *)
(*   [t |-> "null"], [t |-> "bool", b], [t |-> "int", i],                  *)
(*   [t |-> "float", h]  (the float h/2, so .5 fractions are exact),       *)
(*   [t |-> "str", s]    (s a sequence of characters),                     *)
(*   [t |-> "arr", el]   (el a sequence of values),                        *)
(*   [t |-> "obj", kv]   (kv a sequence of [k, v] entries in insertion     *)
(*                        order, keys pairwise distinct).                  *)
(* Python's None is JSON null.  A character is a one-character string; a   *)
(* Cyrillic character is written by its code point, "u0444".  A Python     *)
(* string is the sequence of its characters.                               *)
(***************************************************************************)
EXTENDS Integers, Sequences, FiniteSets, TLC

VARIABLES
    swot_data,    \* the argument of the call under way
    pc,           \* where the call stands
    data,         \* local `data` of either function
    stack,        \* pending find_statistics calls, innermost next call first
    statistics,   \* local `statistics` of process_swot_statistics
    visited,      \* history: tree positions find_statistics was invoked on, in order
    accumulated,  \* history: kved_list as it stood when the walk ended
    last,         \* history: the latest find_statistics call and the counters before it
    found,        \* locals kved_stat .. vehicle_stat of extract_statistics
    extracted,    \* local `extracted` of extract_statistics
    entry,        \* the method called from outside
    calls,        \* how many calls of it have been started on the input so far
    first_record, \* history: what the first of two calls returned
    file,         \* the input file of process_swot_file
    openpyxl_available,  \* OPENPYXL_AVAILABLE
    json_file,    \* local `json_file` of process_swot_file
    excel_file,   \* local `excel_file` of process_swot_file
    artifacts,    \* the output files written so far
    returned,     \* what process_swot_file or save_swot_to_file returned
    invoked,      \* history: the methods invoked so far, in order
    token,        \* self.token of the API client
    response,     \* the response to the data request of the call under way
    env_file,     \* the .env file
    environ,      \* os.environ: the token and the credentials
    register_id   \* the argument of get_swot_report

\* What the two extraction functions never touch
outer == <<entry, calls, first_record, file, openpyxl_available, json_file, excel_file,
           artifacts, returned, invoked>>

\* The state of the API client and of the configuration
client == <<token, response, env_file, environ, register_id>>

vars == <<swot_data, pc, data, stack, statistics, visited, accumulated, last,
          found, extracted, outer, client>>

----------------------------------------------------------------------------
\* Bounds of the checked input space.

\* integer field values run over -1 .. MaxNum
MaxNum == 2
\* named substructures are placed 0 .. MaxDepth levels below the data root
MaxDepth == 2

----------------------------------------------------------------------------
\* String literals of the source and keys of the checked documents.

S_data ==
    <<"d", "a", "t", "a">>   \* data
S_raw_response ==
    <<"r", "a", "w", "_", "r", "e", "s", "p", "o", "n", "s", "e">>   \* raw_response
S_Data ==
    <<"D", "a", "t", "a">>   \* Data
S_count ==
    <<"c", "o", "u", "n", "t">>   \* count
S_area ==
    <<"a", "r", "e", "a">>   \* area
S_total_area ==
    <<"t", "o", "t", "a", "l", "_", "a", "r", "e", "a">>   \* total_area
S_amount ==
    <<"a", "m", "o", "u", "n", "t">>   \* amount
S_total_amount ==
    <<"t", "o", "t", "a", "l", "_", "a", "m", "o", "u", "n", "t">>   \* total_amount
S_list ==
    <<"l", "i", "s", "t">>   \* list
S_items ==
    <<"i", "t", "e", "m", "s">>   \* items
S_kvedStatistic ==
    <<"k", "v", "e", "d", "S", "t", "a", "t", "i", "s", "t", "i", "c">>   \* kvedStatistic
S_intelligenceStatistic ==
    <<"i", "n", "t", "e", "l", "l", "i", "g", "e", "n", "c", "e", "S", "t", "a", "t", "i", "s", "t", "i", "c">>   \* intelligenceStatistic
S_migrationRegionStatistic ==
    <<"m", "i", "g", "r", "a", "t", "i", "o", "n", "R", "e", "g", "i", "o", "n", "S", "t", "a", "t", "i", "s", "t", "i", "c">>   \* migrationRegionStatistic
S_cadastrEstateStatistic ==
    <<"c", "a", "d", "a", "s", "t", "r", "E", "s", "t", "a", "t", "e", "S", "t", "a", "t", "i", "s", "t", "i", "c">>   \* cadastrEstateStatistic
S_statusStats ==
    <<"s", "t", "a", "t", "u", "s", "S", "t", "a", "t", "s">>   \* statusStats
S_openCloseStatistic ==
    <<"o", "p", "e", "n", "C", "l", "o", "s", "e", "S", "t", "a", "t", "i", "s", "t", "i", "c">>   \* openCloseStatistic
S_vehicleStatistic ==
    <<"v", "e", "h", "i", "c", "l", "e", "S", "t", "a", "t", "i", "s", "t", "i", "c">>   \* vehicleStatistic
S_cadastrNumbers ==
    <<"c", "a", "d", "a", "s", "t", "r", "N", "u", "m", "b", "e", "r", "s">>   \* cadastrNumbers
S_migrationTotalIn ==
    <<"m", "i", "g", "r", "a", "t", "i", "o", "n", "T", "o", "t", "a", "l", "I", "n">>   \* migrationTotalIn
S_migrationTotalOut ==
    <<"m", "i", "g", "r", "a", "t", "i", "o", "n", "T", "o", "t", "a", "l", "O", "u", "t">>   \* migrationTotalOut
S_migrationTotalFopIn ==
    <<"m", "i", "g", "r", "a", "t", "i", "o", "n", "T", "o", "t", "a", "l", "F", "o", "p", "I", "n">>   \* migrationTotalFopIn
S_migrationTotalFopOut ==
    <<"m", "i", "g", "r", "a", "t", "i", "o", "n", "T", "o", "t", "a", "l", "F", "o", "p", "O", "u", "t">>   \* migrationTotalFopOut
S_migrationTotalCompanyIn ==
    <<"m", "i", "g", "r", "a", "t", "i", "o", "n", "T", "o", "t", "a", "l", "C", "o", "m", "p", "a", "n", "y", "I", "n">>   \* migrationTotalCompanyIn
S_migrationTotalCompanyOut ==
    <<"m", "i", "g", "r", "a", "t", "i", "o", "n", "T", "o", "t", "a", "l", "C", "o", "m", "p", "a", "n", "y", "O", "u", "t">>   \* migrationTotalCompanyOut
S_companyOpen ==
    <<"c", "o", "m", "p", "a", "n", "y", "O", "p", "e", "n">>   \* companyOpen
S_companyCurrentClose ==
    <<"c", "o", "m", "p", "a", "n", "y", "C", "u", "r", "r", "e", "n", "t", "C", "l", "o", "s", "e">>   \* companyCurrentClose
S_companyPercentLive ==
    <<"c", "o", "m", "p", "a", "n", "y", "P", "e", "r", "c", "e", "n", "t", "L", "i", "v", "e">>   \* companyPercentLive
S_fopOpen ==
    <<"f", "o", "p", "O", "p", "e", "n">>   \* fopOpen
S_fopCurrentClose ==
    <<"f", "o", "p", "C", "u", "r", "r", "e", "n", "t", "C", "l", "o", "s", "e">>   \* fopCurrentClose
S_fopPercentLive ==
    <<"f", "o", "p", "P", "e", "r", "c", "e", "n", "t", "L", "i", "v", "e">>   \* fopPercentLive
S_totalOpen ==
    <<"t", "o", "t", "a", "l", "O", "p", "e", "n">>   \* totalOpen
S_totalCurrentClose ==
    <<"t", "o", "t", "a", "l", "C", "u", "r", "r", "e", "n", "t", "C", "l", "o", "s", "e">>   \* totalCurrentClose
S_totalPercentLive ==
    <<"t", "o", "t", "a", "l", "P", "e", "r", "c", "e", "n", "t", "L", "i", "v", "e">>   \* totalPercentLive
S_headerCompanyWithCount ==
    <<"h", "e", "a", "d", "e", "r", "C", "o", "m", "p", "a", "n", "y", "W", "i", "t", "h", "C", "o", "u", "n", "t">>   \* headerCompanyWithCount
S_headerCompanyWithoutCount ==
    <<"h", "e", "a", "d", "e", "r", "C", "o", "m", "p", "a", "n", "y", "W", "i", "t", "h", "o", "u", "t", "C", "o", "u", "n", "t">>   \* headerCompanyWithoutCount
S_headerVehicleCount ==
    <<"h", "e", "a", "d", "e", "r", "V", "e", "h", "i", "c", "l", "e", "C", "o", "u", "n", "t">>   \* headerVehicleCount
KW_fop ==
    <<"f", "o", "p">>   \* fop
KW_fop_uk ==
    <<"u0444", "u043e", "u043f">>   \* \u0444\u043e\u043f
KW_company ==
    <<"c", "o", "m", "p", "a", "n", "y">>   \* company
KW_company_uk ==
    <<"u043a", "u043e", "u043c", "u043f", "u0430", "u043d", "u0456">>   \* \u043a\u043e\u043c\u043f\u0430\u043d\u0456
KW_company_uo ==
    <<"u044e", "u043e">>   \* \u044e\u043e
KW_kved ==
    <<"k", "v", "e", "d">>   \* kved
KW_kved_uk ==
    <<"u043a", "u0432", "u0435", "u0434">>   \* \u043a\u0432\u0435\u0434
KW_land ==
    <<"l", "a", "n", "d">>   \* land
KW_land_uk ==
    <<"u0437", "u0435", "u043c", "u0435", "u043b", "u044c">>   \* \u0437\u0435\u043c\u0435\u043b\u044c
KW_land_plot_uk ==
    <<"u0434", "u0456", "u043b", "u044f", "u043d", "u043a">>   \* \u0434\u0456\u043b\u044f\u043d\u043a
KW_object ==
    <<"o", "b", "j", "e", "c", "t">>   \* object
KW_object_uk ==
    <<"u043e", "u0431", "'", "u0454", "u043a", "u0442">>   \* \u043e\u0431'\u0454\u043a\u0442
KW_object_uk2 ==
    <<"u043e", "u0431", "u0435", "u043a", "u0442">>   \* \u043e\u0431\u0435\u043a\u0442
KW_procurement ==
    <<"p", "r", "o", "c", "u", "r", "e", "m", "e", "n", "t">>   \* procurement
KW_procurement_uk ==
    <<"u0437", "u0430", "u043a", "u0443", "u043f", "u0456", "u0432", "u043b">>   \* \u0437\u0430\u043a\u0443\u043f\u0456\u0432\u043b
KW_tender_uk ==
    <<"u0442", "u0435", "u043d", "u0434", "u0435", "u0440">>   \* \u0442\u0435\u043d\u0434\u0435\u0440
S_a ==
    <<"a">>   \* a
S_b ==
    <<"b">>   \* b
S_x ==
    <<"x">>   \* x
S_companyX ==
    <<"c", "o", "m", "p", "a", "n", "y", "X">>   \* companyX
S_FOP_uk ==
    <<"u0424", "u041e", "u041f">>   \* \u0424\u041e\u041f
S_fop_company ==
    <<"f", "o", "p", "_", "c", "o", "m", "p", "a", "n", "y">>   \* fop_company
S_company_land_count ==
    <<"c", "o", "m", "p", "a", "n", "y", "_", "l", "a", "n", "d", "_", "c", "o", "u", "n", "t">>   \* company_land_count
S_Kved ==
    <<"K", "v", "e", "d">>   \* Kved
S_landObject ==
    <<"l", "a", "n", "d", "O", "b", "j", "e", "c", "t">>   \* landObject
S_tender_uk ==
    <<"u0422", "u0435", "u043d", "u0434", "u0435", "u0440">>   \* \u0422\u0435\u043d\u0434\u0435\u0440
S_1 ==
    <<"1">>   \* 1
S_ab ==
    <<"a", "b">>   \* ab
S_name ==
    <<"n", "a", "m", "e">>   \* name
S_district ==
    <<"d", "i", "s", "t", "r", "i", "c", "t">>   \* district
S_plots ==
    <<"p", "l", "o", "t", "s">>   \* plots
S_True ==
    <<"T", "r", "u", "e">>   \* True
S_False ==
    <<"F", "a", "l", "s", "e">>   \* False
S_None ==
    <<"N", "o", "n", "e">>   \* None

----------------------------------------------------------------------------
\* JSON values as json.load decodes them.

JNull == [t |-> "null"]
JBool(b) == [t |-> "bool", b |-> b]
JInt(i) == [t |-> "int", i |-> i]
JFloat(h) == [t |-> "float", h |-> h]
JStr(s) == [t |-> "str", s |-> s]
JArr(el) == [t |-> "arr", el |-> el]
JObj(kv) == [t |-> "obj", kv |-> kv]
KV(k, v) == [k |-> k, v |-> v]
Obj1(k, v) == JObj(<<KV(k, v)>>)
Obj2(k1, v1, k2, v2) == JObj(<<KV(k1, v1), KV(k2, v2)>>)
Obj3(k1, v1, k2, v2, k3, v3) == JObj(<<KV(k1, v1), KV(k2, v2), KV(k3, v3)>>)

IsDict(v) == v.t = "obj"
IsList(v) == v.t = "arr"

\* key in obj
HasKey(obj, key) == \E n \in 1..Len(obj.kv) : obj.kv[n].k = key

\* obj[key], for a key that is present
Item(obj, key) ==
    obj.kv[CHOOSE n \in 1..Len(obj.kv) : obj.kv[n].k = key].v

\* obj.get(key): None when the key is missing
Get(obj, key) == IF HasKey(obj, key) THEN Item(obj, key) ELSE JNull

\* dict.get(key, {}) with the default the source passes
GetOrEmpty(obj, key) == IF HasKey(obj, key) THEN Item(obj, key) ELSE JObj(<<>>)

\* Python truth value: None, False, 0, 0.0, "", [] and {} are false
Truthy(v) ==
    CASE v.t = "null" -> FALSE
      [] v.t = "bool" -> v.b
      [] v.t = "int" -> v.i # 0
      [] v.t = "float" -> v.h # 0
      [] v.t = "str" -> v.s # <<>>
      [] v.t = "arr" -> v.el # <<>>
      [] v.t = "obj" -> v.kv # <<>>

\* isinstance(v, (int, float)): bool is a subclass of int
IsIntOrFloat(v) == v.t \in {"int", "float", "bool"}

\* int(v) taken for the floor: the same on what is not negative, one less on a
\* negative number with a fraction
PyIntFloor(v) ==
    CASE v.t = "int" -> v.i
      [] v.t = "bool" -> IF v.b THEN 1 ELSE 0
      [] v.t = "float" -> IF v.h >= 0 THEN v.h \div 2 ELSE -((1 - v.h) \div 2)

\* int(v) for an int, float or bool: truncation toward zero
PyInt(v) ==
    CASE v.t = "int" -> v.i
      [] v.t = "bool" -> IF v.b THEN 1 ELSE 0
      [] v.t = "float" -> IF v.h >= 0 THEN v.h \div 2 ELSE -((-v.h) \div 2)

\* float(v) for an int, float or bool, in halves
PyFloat(v) ==
    CASE v.t = "int" -> 2 * v.i
      [] v.t = "bool" -> IF v.b THEN 2 ELSE 0
      [] v.t = "float" -> v.h

\* acc += float(v): the sum is a float whatever acc was
AddFloat(acc, v) == JFloat(PyFloat(acc) + PyFloat(v))

----------------------------------------------------------------------------
\* Python strings.

UpperChars ==
    <<"A", "B", "C", "D", "E", "F", "G", "H", "I", "J", "K", "L", "M", "N",
      "O", "P", "Q", "R", "S", "T", "U", "V", "W", "X", "Y", "Z",
      "u0424", "u041e", "u041f", "u0422", "u041a", "u0412", "u0415", "u0414">>
LowerChars ==
    <<"a", "b", "c", "d", "e", "f", "g", "h", "i", "j", "k", "l", "m", "n",
      "o", "p", "q", "r", "s", "t", "u", "v", "w", "x", "y", "z",
      "u0444", "u043e", "u043f", "u0442", "u043a", "u0432", "u0435", "u0434">>

\* one character of str.lower()
LowerChar(c) ==
    IF \E n \in 1..Len(UpperChars) : UpperChars[n] = c
    THEN LowerChars[CHOOSE n \in 1..Len(UpperChars) : UpperChars[n] = c]
    ELSE c

\* str.lower()
Lower(s) == [n \in 1..Len(s) |-> LowerChar(s[n])]

\* kw in s
Contains(s, kw) ==
    \E n \in 1..(Len(s) - Len(kw) + 1) : SubSeq(s, n, n + Len(kw) - 1) = kw

DigitChars == <<"0", "1", "2", "3", "4", "5", "6", "7", "8", "9">>

\* str(n) of an int
RECURSIVE IntStr(_)
IntStr(n) ==
    IF n < 0 THEN <<"-">> \o IntStr(-n)
    ELSE IF n < 10 THEN <<DigitChars[n + 1]>>
    ELSE IntStr(n \div 10) \o <<DigitChars[(n % 10) + 1]>>

\* str(x) of the float h/2
FloatStr(h) ==
    LET m == IF h < 0 THEN -h ELSE h
    IN  (IF h < 0 THEN <<"-">> ELSE <<>>) \o IntStr(m \div 2)
            \o (IF m % 2 = 0 THEN <<".", "0">> ELSE <<".", "5">>)

\* repr(s) of a str without backslashes and control characters
StrRepr(s) ==
    IF Contains(s, <<"'">>) /\ ~Contains(s, <<"\"">>)
    THEN <<"\"">> \o s \o <<"\"">>
    ELSE <<"'">> \o s \o <<"'">>

\* repr(v), which str() uses for everything inside a list or dict
RECURSIVE PyRepr(_)
RECURSIVE ReprItems(_, _)
RECURSIVE ReprEntries(_, _)
ReprItems(el, n) ==
    IF n > Len(el) THEN <<>>
    ELSE (IF n > 1 THEN <<",", " ">> ELSE <<>>) \o PyRepr(el[n]) \o ReprItems(el, n + 1)
ReprEntries(kv, n) ==
    IF n > Len(kv) THEN <<>>
    ELSE (IF n > 1 THEN <<",", " ">> ELSE <<>>) \o StrRepr(kv[n].k) \o <<":", " ">>
            \o PyRepr(kv[n].v) \o ReprEntries(kv, n + 1)
PyRepr(v) ==
    CASE v.t = "null" -> S_None
      [] v.t = "bool" -> IF v.b THEN S_True ELSE S_False
      [] v.t = "int" -> IntStr(v.i)
      [] v.t = "float" -> FloatStr(v.h)
      [] v.t = "str" -> StrRepr(v.s)
      [] v.t = "arr" -> <<"[">> \o ReprItems(v.el, 1) \o <<"]">>
      [] v.t = "obj" -> <<"{">> \o ReprEntries(v.kv, 1) \o <<"}">>

\* str(v)
PyStr(v) == IF v.t = "str" THEN v.s ELSE PyRepr(v)

----------------------------------------------------------------------------
\* HromadaEconomyAPI.process_swot_statistics

InitStatistics ==
    [fop_companies |-> [fop_count |-> 0, companies_count |-> 0, total_count |-> 0],
     kved |-> [kved_list |-> <<>>, kved_count |-> 0],
     land_plots |-> [count |-> 0, total_area |-> JInt(0)],
     objects |-> [count |-> 0, types |-> JObj(<<>>)],
     public_procurements |-> [count |-> 0, total_amount |-> JInt(0)]]

\* The keyword tests on key_lower = path.lower()
MatchesFop(key_lower) ==
    Contains(key_lower, KW_fop) \/ Contains(key_lower, KW_fop_uk)
MatchesCompany(key_lower) ==
    \/ Contains(key_lower, KW_company)
    \/ Contains(key_lower, KW_company_uk)
    \/ Contains(key_lower, KW_company_uo)
MatchesKved(key_lower) ==
    Contains(key_lower, KW_kved) \/ Contains(key_lower, KW_kved_uk)
MatchesLand(key_lower) ==
    \/ Contains(key_lower, KW_land)
    \/ Contains(key_lower, KW_land_uk)
    \/ Contains(key_lower, KW_land_plot_uk)
MatchesObject(key_lower) ==
    \/ Contains(key_lower, KW_object)
    \/ Contains(key_lower, KW_object_uk)
    \/ Contains(key_lower, KW_object_uk2)
MatchesProcurement(key_lower) ==
    \/ Contains(key_lower, KW_procurement)
    \/ Contains(key_lower, KW_procurement_uk)
    \/ Contains(key_lower, KW_tender_uk)

\* isinstance(obj.get(name), (int, float))
HasNumeric(obj, name) == IsIntOrFloat(Get(obj, name))

FopRule(s, key_lower, obj) ==
    IF MatchesFop(key_lower) /\ HasNumeric(obj, S_count)
    THEN [s EXCEPT !.fop_companies.fop_count = @ + PyInt(Item(obj, S_count))]
    ELSE s

\* CompanyRule with the counter of the line above it (a copy of the fop branch
\* left unedited): the company count lands in fop_count
CompanyRuleIntoFop(s, key_lower, obj) ==
    IF MatchesCompany(key_lower) /\ HasNumeric(obj, S_count)
    THEN [s EXCEPT !.fop_companies.fop_count = @ + PyInt(Item(obj, S_count))]
    ELSE s

CompanyRule(s, key_lower, obj) ==
    IF MatchesCompany(key_lower) /\ HasNumeric(obj, S_count)
    THEN [s EXCEPT !.fop_companies.companies_count = @ + PyInt(Item(obj, S_count))]
    ELSE s

\* What list.extend(x) iterates over: the elements of a list, the characters
\* of a str, the keys of a dict; anything else is not iterable (TypeError)
Iterable(x) == x.t \in {"arr", "str", "obj"}
IterItems(x) ==
    CASE x.t = "arr" -> x.el
      [] x.t = "str" -> [n \in 1..Len(x.s) |-> JStr(<<x.s[n]>>)]
      [] x.t = "obj" -> [n \in 1..Len(x.kv) |-> JStr(x.kv[n].k)]

\* No call of kved_list.extend
NoExtend == [t |-> "no_extend"]

\* The argument of kved_list.extend at a dict node, or NoExtend when there is no
\* call.  The isinstance(obj, list) branch sits inside the isinstance(obj, dict)
\* branch, so it is never taken.
KvedExtendArg(key_lower, obj) ==
    IF ~MatchesKved(key_lower) THEN NoExtend
    ELSE IF IsList(obj) THEN obj
    ELSE IF HasKey(obj, S_list) THEN Item(obj, S_list)
    ELSE IF HasKey(obj, S_items) THEN Item(obj, S_items)
    ELSE NoExtend

\* kved_list.extend raises TypeError
KvedRaises(key_lower, obj) ==
    LET arg == KvedExtendArg(key_lower, obj)
    IN  arg.t # "no_extend" /\ ~Iterable(arg)

KvedRule(s, key_lower, obj) ==
    LET arg == KvedExtendArg(key_lower, obj)
    IN  IF Iterable(arg)
        THEN [s EXCEPT !.kved.kved_list = @ \o IterItems(arg)]
        ELSE s

LandRule(s, key_lower, obj) ==
    IF ~MatchesLand(key_lower) THEN s
    ELSE LET s1 == IF HasNumeric(obj, S_count)
                   THEN [s EXCEPT !.land_plots.count = @ + PyInt(Item(obj, S_count))]
                   ELSE s
             s2 == IF HasNumeric(obj, S_area)
                   THEN [s1 EXCEPT !.land_plots.total_area = AddFloat(@, Item(obj, S_area))]
                   ELSE s1
         IN  IF HasNumeric(obj, S_total_area)
             THEN [s2 EXCEPT !.land_plots.total_area = AddFloat(@, Item(obj, S_total_area))]
             ELSE s2

ObjectRule(s, key_lower, obj) ==
    IF MatchesObject(key_lower) /\ HasNumeric(obj, S_count)
    THEN [s EXCEPT !.objects.count = @ + PyInt(Item(obj, S_count))]
    ELSE s

ProcurementRule(s, key_lower, obj) ==
    IF ~MatchesProcurement(key_lower) THEN s
    ELSE LET s1 == IF HasNumeric(obj, S_count)
                   THEN [s EXCEPT !.public_procurements.count = @ + PyInt(Item(obj, S_count))]
                   ELSE s
             s2 == IF HasNumeric(obj, S_amount)
                   THEN [s1 EXCEPT !.public_procurements.total_amount =
                                        AddFloat(@, Item(obj, S_amount))]
                   ELSE s1
         IN  IF HasNumeric(obj, S_total_amount)
             THEN [s2 EXCEPT !.public_procurements.total_amount =
                                AddFloat(@, Item(obj, S_total_amount))]
             ELSE s2

\* A pending call find_statistics(obj, path); pos is the node's position in the
\* tree (child numbers from the root), kept for the history only.
Frame(obj, path, pos) == [obj |-> obj, path |-> path, pos |-> pos]

\* new_path = f"{path}.{key}" if path else key
DictPath(path, key) == IF path # <<>> THEN path \o <<".">> \o key ELSE key
\* new_path = f"{path}[{i}]"
ListPath(path, i) == path \o <<"[">> \o IntStr(i) \o <<"]">>

\* The recursive calls a node makes, in the order it makes them
ChildFrames(f) ==
    CASE IsDict(f.obj) ->
            [n \in 1..Len(f.obj.kv) |->
                Frame(f.obj.kv[n].v, DictPath(f.path, f.obj.kv[n].k), Append(f.pos, n))]
      [] IsList(f.obj) ->
            [n \in 1..Len(f.obj.el) |->
                Frame(f.obj.el[n], ListPath(f.path, n - 1), Append(f.pos, n))]
      [] OTHER -> <<>>

\* data = swot_data.get("data") or raw_response.get("Data") or raw_response.get("data")
\* for a dict swot_data whose raw_response, when consulted, is a dict
StatsData(sd) ==
    LET raw_response == GetOrEmpty(sd, S_raw_response)
    IN  IF Truthy(Get(sd, S_data)) THEN Get(sd, S_data)
        ELSE IF Truthy(Get(raw_response, S_Data)) THEN Get(raw_response, S_Data)
        ELSE Get(raw_response, S_data)

\* swot_data.get or raw_response.get raises AttributeError
StatsDataRaises(sd) ==
    \/ ~IsDict(sd)
    \/ ~Truthy(Get(sd, S_data)) /\ ~IsDict(GetOrEmpty(sd, S_raw_response))

\* TotalCount with the second summand forgotten
TotalCountFopOnly(fc) == fc.fop_count

\* total_count = fop_count + companies_count
TotalCount(fc) == fc.fop_count + fc.companies_count

\* The loop over kved_list from element n on: unique_kveds and seen so far
RECURSIVE UniqueKveds(_, _, _, _)
UniqueKveds(kved_list, n, unique_kveds, seen) ==
    IF n > Len(kved_list) THEN unique_kveds
    ELSE LET kved == kved_list[n]
             kved_str == PyStr(kved)
         IN  IF kved_str \notin seen
             THEN UniqueKveds(kved_list, n + 1, Append(unique_kveds, kved),
                              seen \cup {kved_str})
             ELSE UniqueKveds(kved_list, n + 1, unique_kveds, seen)

\* Deduplicate that remembers the previous entry only: repeats are dropped
\* when adjacent and kept otherwise
DeduplicateAdjacent(kved_list) ==
    LET marked == [n \in 1..Len(kved_list) |->
                     [keep |-> n = 1 \/ PyStr(kved_list[n - 1]) # PyStr(kved_list[n]),
                      kved |-> kved_list[n]]]
        kept == SelectSeq(marked, LAMBDA e : e.keep)
    IN  [n \in 1..Len(kept) |-> kept[n].kved]

\* Lines 416-427: the list is replaced only when it is not empty
Deduplicate(kved_list) ==
    IF kved_list # <<>> THEN UniqueKveds(kved_list, 1, <<>>, {}) ELSE kved_list

NoCall == [called |-> FALSE, obj |-> JNull, path |-> <<>>, before |-> InitStatistics]

\* ProcessSwotStatistics with accumulators created once and kept from call to
\* call (as attributes set in __init__ would be) instead of line 318's new dict
ProcessSwotStatisticsStale ==
    /\ pc = "stats_start"
    /\ IF StatsDataRaises(swot_data)
       THEN /\ pc' = "stats_raised"
            /\ UNCHANGED <<data, stack>>
       ELSE /\ data' = StatsData(swot_data)
            /\ IF Truthy(StatsData(swot_data))
               THEN /\ pc' = "stats_walk"
                    /\ stack' = <<Frame(StatsData(swot_data), <<>>, <<>>)>>
               ELSE /\ pc' = "stats_done"
                    /\ stack' = <<>>
    /\ UNCHANGED <<swot_data, statistics, visited, accumulated, last, found, extracted,
                   outer, client>>

\* Lines 318-347: fresh accumulators, data selection, early return
ProcessSwotStatistics ==
    /\ pc = "stats_start"
    /\ statistics' = InitStatistics
    /\ IF StatsDataRaises(swot_data)
       THEN /\ pc' = "stats_raised"
            /\ UNCHANGED <<data, stack>>
       ELSE /\ data' = StatsData(swot_data)
            /\ IF Truthy(StatsData(swot_data))
               THEN /\ pc' = "stats_walk"
                    /\ stack' = <<Frame(StatsData(swot_data), <<>>, <<>>)>>
               ELSE /\ pc' = "stats_done"
                    /\ stack' = <<>>
    /\ UNCHANGED <<swot_data, visited, accumulated, last, found, extracted, outer,
                   client>>

\* The part of a path after its last dot: the key the node sits under
RECURSIVE FinalSegment(_)
FinalSegment(path) ==
    IF \A n \in 1..Len(path) : path[n] # "." THEN path
    ELSE FinalSegment(Tail(path))

\* find_statistics matching the keywords against the final segment of the
\* path only
find_statistics_by_final_segment ==
    /\ pc = "stats_walk"
    /\ stack # <<>>
    /\ LET f == Head(stack)
           key_lower == Lower(FinalSegment(f.path))
           s2 == CompanyRule(FopRule(statistics, key_lower, f.obj), key_lower, f.obj)
           s3 == KvedRule(s2, key_lower, f.obj)
           s6 == ProcurementRule(ObjectRule(LandRule(s3, key_lower, f.obj),
                                            key_lower, f.obj), key_lower, f.obj)
       IN  /\ visited' = Append(visited, f.pos)
           /\ last' = [called |-> TRUE, obj |-> f.obj, path |-> f.path,
                       before |-> statistics]
           /\ IF IsDict(f.obj)
              THEN IF KvedRaises(key_lower, f.obj)
                   THEN /\ statistics' = s2
                        /\ pc' = "stats_raised"
                        /\ UNCHANGED stack
                   ELSE /\ statistics' = s6
                        /\ stack' = ChildFrames(f) \o Tail(stack)
                        /\ UNCHANGED pc
              ELSE /\ stack' = ChildFrames(f) \o Tail(stack)
                   /\ UNCHANGED <<statistics, pc>>
    /\ UNCHANGED <<swot_data, data, accumulated, found, extracted, outer, client>>

\* Lines 350-403: one call of find_statistics, up to its recursive calls
find_statistics ==
    /\ pc = "stats_walk"
    /\ stack # <<>>
    /\ LET f == Head(stack)
           key_lower == Lower(f.path)
           s2 == CompanyRule(FopRule(statistics, key_lower, f.obj), key_lower, f.obj)
           s3 == KvedRule(s2, key_lower, f.obj)
           s6 == ProcurementRule(ObjectRule(LandRule(s3, key_lower, f.obj),
                                            key_lower, f.obj), key_lower, f.obj)
       IN  /\ visited' = Append(visited, f.pos)
           /\ last' = [called |-> TRUE, obj |-> f.obj, path |-> f.path,
                       before |-> statistics]
           /\ IF IsDict(f.obj)
              THEN IF KvedRaises(key_lower, f.obj)
                   THEN /\ statistics' = s2
                        /\ pc' = "stats_raised"
                        /\ UNCHANGED stack
                   ELSE /\ statistics' = s6
                        /\ stack' = ChildFrames(f) \o Tail(stack)
                        /\ UNCHANGED pc
              ELSE /\ stack' = ChildFrames(f) \o Tail(stack)
                   /\ UNCHANGED <<statistics, pc>>
    /\ UNCHANGED <<swot_data, data, accumulated, found, extracted, outer, client>>

\* Lines 408-430: totals, deduplication, return
ProcessSwotStatisticsReturn ==
    /\ pc = "stats_walk"
    /\ stack = <<>>
    /\ accumulated' = statistics.kved.kved_list
    /\ statistics' =
          [statistics EXCEPT
             !.fop_companies.total_count = TotalCount(statistics.fop_companies),
             !.kved.kved_list = Deduplicate(statistics.kved.kved_list),
             !.kved.kved_count = Len(Deduplicate(statistics.kved.kved_list))]
    /\ pc' = "stats_done"
    /\ UNCHANGED <<swot_data, data, stack, visited, last, found, extracted, outer,
                   client>>

----------------------------------------------------------------------------
\* SWOTProcessor.extract_statistics

InitExtracted ==
    [kved_statistic |-> JArr(<<>>),
     intelligence_statistic |-> JArr(<<>>),
     migration_region_statistic |-> JObj(<<>>),
     cadastr_estate_statistic |-> JObj(<<>>),
     status_stats |-> JObj(<<>>),
     open_close_statistic |-> JObj(<<>>),
     vehicle_statistic |-> JObj(<<>>)]

\* A local that has not been assigned yet
Unset == [t |-> "unset"]

InitFound ==
    [kved_stat |-> Unset, intel_stat |-> Unset, migration_stat |-> Unset,
     cadastr_stat |-> Unset, status_stats |-> Unset, open_close_stat |-> Unset,
     vehicle_stat |-> Unset]

\* data = swot_data.get("data") or swot_data.get("raw_response", {}).get("Data")
\*        or swot_data.get("raw_response", {}).get("data") or {}
ExtractData(sd) ==
    LET raw_response == GetOrEmpty(sd, S_raw_response)
    IN  IF Truthy(Get(sd, S_data)) THEN Get(sd, S_data)
        ELSE IF Truthy(Get(raw_response, S_Data)) THEN Get(raw_response, S_Data)
        ELSE IF Truthy(Get(raw_response, S_data)) THEN Get(raw_response, S_data)
        ELSE JObj(<<>>)

\* swot_data.get or swot_data.get("raw_response", {}).get raises AttributeError
ExtractDataRaises(sd) ==
    \/ ~IsDict(sd)
    \/ ~Truthy(Get(sd, S_data)) /\ ~IsDict(GetOrEmpty(sd, S_raw_response))

\* find_field(obj, target_key); the result None is JNull
RECURSIVE find_field(_, _)
RECURSIVE FindInChildren(_, _, _)
FindInChildren(children, target_key, n) ==
    IF n > Len(children) THEN JNull
    ELSE LET result == find_field(children[n], target_key)
         IN  IF result.t # "null" THEN result
             ELSE FindInChildren(children, target_key, n + 1)
find_field(obj, target_key) ==
    IF IsDict(obj)
    THEN IF HasKey(obj, target_key) THEN Item(obj, target_key)
         ELSE FindInChildren([n \in 1..Len(obj.kv) |-> obj.kv[n].v], target_key, 1)
    ELSE IF IsList(obj) THEN FindInChildren(obj.el, target_key, 1)
    ELSE JNull

\* remove_cadastr_numbers(obj)
RECURSIVE remove_cadastr_numbers(_)
remove_cadastr_numbers(obj) ==
    IF IsDict(obj)
    THEN LET kept == SelectSeq(obj.kv, LAMBDA e : e.k # S_cadastrNumbers)
         IN  JObj([n \in 1..Len(kept) |-> KV(kept[n].k, remove_cadastr_numbers(kept[n].v))])
    ELSE IF IsList(obj)
    THEN JArr([n \in 1..Len(obj.el) |-> remove_cadastr_numbers(obj.el[n])])
    ELSE obj

MigrationFields ==
    <<S_migrationTotalIn, S_migrationTotalOut, S_migrationTotalFopIn,
      S_migrationTotalFopOut, S_migrationTotalCompanyIn, S_migrationTotalCompanyOut>>
OpenCloseFields ==
    <<S_companyOpen, S_companyCurrentClose, S_companyPercentLive,
      S_fopOpen, S_fopCurrentClose, S_fopPercentLive,
      S_totalOpen, S_totalCurrentClose, S_totalPercentLive>>
VehicleFields ==
    <<S_headerCompanyWithCount, S_headerCompanyWithoutCount, S_headerVehicleCount>>

\* {name: stat.get(name) for each retained name}, for a dict stat
Project(stat, fields) ==
    JObj([n \in 1..Len(fields) |-> KV(fields[n], Get(stat, fields[n]))])

\* MigrationProjection that copies the substructure as it is, list included
MigrationVerbatim(migration_stat) == migration_stat

MigrationProjection(migration_stat) == Project(migration_stat, MigrationFields)
OpenCloseProjection(open_close_stat) == Project(open_close_stat, OpenCloseFields)
VehicleProjection(vehicle_stat) == Project(vehicle_stat, VehicleFields)

\* len(x) raises TypeError
LenRaises(x) == x.t \in {"int", "float", "bool", "null"}
\* x.get raises AttributeError
GetRaises(x) == ~IsDict(x)

\* Lines 58-73: fresh record, data selection, early return
ExtractStatistics ==
    /\ pc = "extract_start"
    /\ extracted' = InitExtracted
    /\ IF ExtractDataRaises(swot_data)
       THEN pc' = "extract_raised" /\ UNCHANGED data
       ELSE /\ data' = ExtractData(swot_data)
            /\ pc' = IF Truthy(ExtractData(swot_data)) THEN "extract_kved"
                     ELSE "extract_done"
    /\ UNCHANGED <<swot_data, stack, statistics, visited, accumulated, last, found, outer,
                   client>>

\* Lines 97-101
ExtractKved ==
    /\ pc = "extract_kved"
    /\ LET kved_stat == find_field(data, S_kvedStatistic)
       IN  /\ found' = [found EXCEPT !.kved_stat = kved_stat]
           /\ IF Truthy(kved_stat)
              THEN /\ extracted' = [extracted EXCEPT !.kved_statistic = kved_stat]
                   /\ pc' = IF LenRaises(kved_stat) THEN "extract_raised"
                            ELSE "extract_intel"
              ELSE pc' = "extract_intel" /\ UNCHANGED extracted
    /\ UNCHANGED <<swot_data, data, stack, statistics, visited, accumulated, last, outer,
                   client>>

\* Lines 103-107
ExtractIntelligence ==
    /\ pc = "extract_intel"
    /\ LET intel_stat == find_field(data, S_intelligenceStatistic)
       IN  /\ found' = [found EXCEPT !.intel_stat = intel_stat]
           /\ IF Truthy(intel_stat)
              THEN /\ extracted' = [extracted EXCEPT !.intelligence_statistic = intel_stat]
                   /\ pc' = IF LenRaises(intel_stat) THEN "extract_raised"
                            ELSE "extract_migration"
              ELSE pc' = "extract_migration" /\ UNCHANGED extracted
    /\ UNCHANGED <<swot_data, data, stack, statistics, visited, accumulated, last, outer,
                   client>>

\* Lines 109-121
ExtractMigration ==
    /\ pc = "extract_migration"
    /\ LET migration_stat == find_field(data, S_migrationRegionStatistic)
       IN  /\ found' = [found EXCEPT !.migration_stat = migration_stat]
           /\ IF Truthy(migration_stat)
              THEN IF GetRaises(migration_stat)
                   THEN pc' = "extract_raised" /\ UNCHANGED extracted
                   ELSE /\ extracted' = [extracted EXCEPT !.migration_region_statistic =
                                            MigrationProjection(migration_stat)]
                        /\ pc' = "extract_cadastr"
              ELSE pc' = "extract_cadastr" /\ UNCHANGED extracted
    /\ UNCHANGED <<swot_data, data, stack, statistics, visited, accumulated, last, outer,
                   client>>

\* ExtractCadastr deleting the cadastrNumbers keys from the dicts of the
\* document themselves instead of building cleaned copies
ExtractCadastrInPlace ==
    /\ pc = "extract_cadastr"
    /\ LET cadastr_stat == find_field(data, S_cadastrEstateStatistic)
       IN  /\ found' = [found EXCEPT !.cadastr_stat = cadastr_stat]
           /\ IF Truthy(cadastr_stat)
              THEN /\ extracted' = [extracted EXCEPT !.cadastr_estate_statistic =
                                       remove_cadastr_numbers(cadastr_stat)]
                   /\ swot_data' = remove_cadastr_numbers(swot_data)
                   /\ data' = remove_cadastr_numbers(data)
              ELSE UNCHANGED <<extracted, swot_data, data>>
    /\ pc' = "extract_status"
    /\ UNCHANGED <<stack, statistics, visited, accumulated, last, outer, client>>

\* Lines 123-144
ExtractCadastr ==
    /\ pc = "extract_cadastr"
    /\ LET cadastr_stat == find_field(data, S_cadastrEstateStatistic)
       IN  /\ found' = [found EXCEPT !.cadastr_stat = cadastr_stat]
           /\ extracted' =
                 IF Truthy(cadastr_stat)
                 THEN [extracted EXCEPT !.cadastr_estate_statistic =
                          remove_cadastr_numbers(cadastr_stat)]
                 ELSE extracted
    /\ pc' = "extract_status"
    /\ UNCHANGED <<swot_data, data, stack, statistics, visited, accumulated, last, outer,
                   client>>

\* Lines 146-150
ExtractStatus ==
    /\ pc = "extract_status"
    /\ LET status_stats == find_field(data, S_statusStats)
       IN  /\ found' = [found EXCEPT !.status_stats = status_stats]
           /\ extracted' =
                 IF Truthy(status_stats)
                 THEN [extracted EXCEPT !.status_stats = status_stats]
                 ELSE extracted
    /\ pc' = "extract_openclose"
    /\ UNCHANGED <<swot_data, data, stack, statistics, visited, accumulated, last, outer,
                   client>>

\* Lines 152-173
ExtractOpenClose ==
    /\ pc = "extract_openclose"
    /\ LET open_close_stat == find_field(data, S_openCloseStatistic)
       IN  /\ found' = [found EXCEPT !.open_close_stat = open_close_stat]
           /\ IF Truthy(open_close_stat)
              THEN IF GetRaises(open_close_stat)
                   THEN pc' = "extract_raised" /\ UNCHANGED extracted
                   ELSE /\ extracted' = [extracted EXCEPT !.open_close_statistic =
                                            OpenCloseProjection(open_close_stat)]
                        /\ pc' = "extract_vehicle"
              ELSE pc' = "extract_vehicle" /\ UNCHANGED extracted
    /\ UNCHANGED <<swot_data, data, stack, statistics, visited, accumulated, last, outer,
                   client>>

\* Lines 175-190, with the return
ExtractVehicle ==
    /\ pc = "extract_vehicle"
    /\ LET vehicle_stat == find_field(data, S_vehicleStatistic)
       IN  /\ found' = [found EXCEPT !.vehicle_stat = vehicle_stat]
           /\ IF Truthy(vehicle_stat)
              THEN IF GetRaises(vehicle_stat)
                   THEN pc' = "extract_raised" /\ UNCHANGED extracted
                   ELSE /\ extracted' = [extracted EXCEPT !.vehicle_statistic =
                                            VehicleProjection(vehicle_stat)]
                        /\ pc' = "extract_done"
              ELSE pc' = "extract_done" /\ UNCHANGED extracted
    /\ UNCHANGED <<swot_data, data, stack, statistics, visited, accumulated, last, outer,
                   client>>

----------------------------------------------------------------------------
\* The checked inputs.

\* v placed d levels below the root, behind earlier siblings, through
\* objects and arrays in turn
RECURSIVE Nest(_, _)
Nest(d, v) ==
    IF d = 0 THEN v
    ELSE IF d % 2 = 1 THEN Obj2(S_x, JInt(0), S_b, Nest(d - 1, v))
    ELSE JArr(<<JStr(S_ab), Nest(d - 1, v)>>)

\* swot_data as get_swot_report hands it on, and as the saved file holds it
InData(d) == Obj1(S_data, d)
InRawData(d) == Obj2(S_data, JNull, S_raw_response, Obj1(S_Data, d))
InRawDataLower(d) == Obj1(S_raw_response, Obj2(S_Data, JObj(<<>>), S_data, d))

Numbers ==
    {JInt(i) : i \in -1..MaxNum} \cup {JFloat(5), JFloat(-3), JFloat(2)}

FieldValues ==
    Numbers \cup
    {JBool(TRUE), JBool(FALSE), JNull, JStr(S_1), JStr(S_ab), JArr(<<>>),
     JArr(<<JInt(1), JStr(S_1), JInt(1), JFloat(2)>>),
     Obj2(S_a, JInt(1), S_count, JInt(1))}

FieldNames ==
    {S_count, S_area, S_total_area, S_amount, S_total_amount, S_list, S_items, S_x}

PathKeys ==
    {S_a, KW_fop, S_companyX, S_FOP_uk, S_fop_company, S_company_land_count,
     S_Kved, S_landObject, KW_procurement, S_tender_uk, KW_company_uo}

\* {"a": {"fop": {"count": 3}}, "b": {"companyX": {"count": 2}}}
DocExample ==
    Obj2(S_a, Obj1(KW_fop, Obj1(S_count, JInt(3))),
         S_b, Obj1(S_companyX, Obj1(S_count, JInt(2))))

\* Kved lists with repeated entries and entries whose str() coincide
DocKvedRepeats ==
    Obj2(KW_kved,
         Obj2(S_list, JArr(<<JInt(1), JStr(S_1), Obj1(S_a, JInt(1)), Obj1(S_a, JInt(1)),
                             JFloat(2), JInt(1), JBool(TRUE), JStr(S_True)>>),
              S_items, JArr(<<JInt(7)>>)),
         S_x,
         Obj1(S_Kved, Obj1(S_items, JArr(<<JStr(S_ab), JInt(1), JNull, JStr(S_None)>>))))

\* An array under a Kved key, holding an object with a list and a scalar
DocKvedArray ==
    Obj2(KW_kved, JArr(<<Obj1(S_list, JArr(<<JInt(1), JInt(2)>>)), JInt(2)>>),
         KW_fop, Obj1(S_count, JInt(1)))

\* A Kved list that is no array, with fields after it
DocKvedScalarList ==
    Obj2(S_fop_company, Obj2(S_count, JInt(2), S_Kved, Obj2(S_list, JInt(5), S_a, JInt(1))),
         KW_fop, Obj1(S_count, JInt(1)))

\* Nodes carrying several recognised fields, and matching nodes below matching nodes
DocManyFields ==
    Obj3(S_landObject,
         Obj3(S_count, JInt(2), S_area, JFloat(5), S_total_area, JInt(1)),
         KW_procurement,
         Obj3(S_count, JFloat(5), S_amount, JInt(3), S_total_amount, JFloat(1)),
         KW_fop,
         Obj2(S_count, JInt(1), S_a, Obj2(S_count, JFloat(3), S_companyX, Obj1(S_count, JInt(1)))))

\* A node below a Kved key whose path also matches the land and object keywords,
\* with a count and a list that is no array
DocKvedOverLand ==
    Obj2(S_Kved, Obj1(S_landObject, Obj2(S_count, JInt(2), S_list, JInt(5))),
         S_tender_uk, Obj1(S_count, JInt(1)))

\* A count at the root, and counts with a fraction: two of 1.5 in one category
\* and one of -1.5 in another
DocFractionalCounts ==
    Obj3(S_count, JInt(2),
         KW_fop, Obj2(S_count, JFloat(3), S_a, Obj1(S_count, JFloat(3))),
         KW_company_uo, Obj1(S_count, JFloat(-3)))

StatisticsDocs ==
    {DocExample, DocKvedRepeats, DocKvedArray, DocKvedScalarList, DocManyFields,
     DocKvedOverLand, DocFractionalCounts}

StatisticsInputs ==
    {InData(Obj1(k, Obj1(f, v))) : k \in PathKeys, f \in FieldNames, v \in FieldValues}
    \cup {InData(Nest(d, doc)) : d \in 0..MaxDepth, doc \in StatisticsDocs}
    \cup {InRawData(doc) : doc \in StatisticsDocs}
    \cup {InRawDataLower(doc) : doc \in StatisticsDocs}
    \cup {InData(JInt(5)), InData(JObj(<<>>)), JObj(<<>>), JArr(<<DocExample>>),
          Obj1(S_raw_response, JArr(<<>>)),
          Obj2(S_data, JInt(0), S_raw_response, JStr(S_ab))}

\* No input file: the document is handed over decoded
NoFile == [kind |-> "none"]

\* No output file yet
NoArtifact == [written |-> FALSE]
NoArtifacts == [json |-> NoArtifact, excel |-> NoArtifact]

InitCall ==
    /\ data = JNull
    /\ stack = <<>>
    /\ statistics = InitStatistics
    /\ visited = <<>>
    /\ accumulated = <<>>
    /\ last = NoCall
    /\ found = InitFound
    /\ extracted = InitExtracted
    /\ calls = 1
    /\ first_record = Unset
    /\ json_file = JNull
    /\ excel_file = JNull
    /\ artifacts = NoArtifacts
    /\ returned = Unset
    /\ invoked = <<>>

\* No request has been answered; no .env file; nothing in os.environ
NoResponse == [kind |-> "none"]
NoEnvFile == [exists |-> FALSE, text |-> <<>>]
NoEnviron == [token |-> <<>>, email |-> <<>>, password |-> <<>>]

\* The API client takes no part in the call
InitNoClient ==
    /\ token = JNull
    /\ response = NoResponse
    /\ env_file = NoEnvFile
    /\ environ = NoEnviron
    /\ register_id = JNull

\* One of the two extraction functions is called on a decoded document
InitDirect(name) ==
    /\ entry = name
    /\ file = NoFile
    /\ openpyxl_available = TRUE
    /\ InitNoClient

InitStatisticsCall ==
    /\ swot_data \in StatisticsInputs
    /\ pc = "stats_start"
    /\ InitCall
    /\ InitDirect("process_swot_statistics")

NextStatistics ==
    \/ ProcessSwotStatistics
    \/ find_statistics
    \/ ProcessSwotStatisticsReturn

SpecStatistics == InitStatisticsCall /\ [][NextStatistics]_vars

\* migrationRegionStatistic with its six aggregates and the per-date list
SubMigration ==
    JObj(<<KV(S_migrationTotalIn, JInt(5)), KV(S_migrationTotalOut, JInt(0)),
           KV(S_list, JArr(<<Obj1(S_a, JInt(1))>>)),
           KV(S_migrationTotalFopIn, JFloat(5)), KV(S_migrationTotalFopOut, JNull),
           KV(S_migrationTotalCompanyIn, JStr(S_1)), KV(S_migrationTotalCompanyOut, JInt(2))>>)

\* Some of the aggregates only, next to the list
SubMigrationPartial ==
    Obj3(S_list, JArr(<<JInt(1)>>), S_migrationTotalOut, JInt(4), S_a, JInt(1))

\* No retained field at all
SubListOnly == Obj1(S_list, JArr(<<>>))

SubOpenClose ==
    JObj(<<KV(S_companyOpen, JInt(3)), KV(S_companyCurrentClose, JInt(1)),
           KV(S_companyPercentLive, JFloat(3)), KV(S_fopOpen, JInt(0)),
           KV(S_fopCurrentClose, JNull), KV(S_fopPercentLive, JInt(1)),
           KV(S_totalOpen, JInt(3)), KV(S_totalCurrentClose, JInt(1)),
           KV(S_totalPercentLive, JInt(2)), KV(S_list, JArr(<<JInt(1)>>))>>)

SubVehicle ==
    Obj3(S_headerCompanyWithCount, JInt(1), S_headerVehicleCount, JInt(4),
         S_list, JArr(<<>>))

\* cadastrNumbers three levels deep, in objects and in arrays of objects
SubCadastr ==
    Obj3(S_count, JInt(2),
         S_cadastrNumbers, JArr(<<JStr(S_1)>>),
         S_district,
         JArr(<<Obj3(S_name, JStr(S_ab),
                     S_cadastrNumbers, JArr(<<JInt(1)>>),
                     S_plots, Obj2(S_cadastrNumbers, JStr(S_ab), S_count, JInt(1))),
                JInt(1),
                JArr(<<Obj2(S_cadastrNumbers, JNull, S_a, JInt(1))>>)>>))

\* An array of objects, as kvedStatistic and intelligenceStatistic are
SubList ==
    JArr(<<Obj2(S_name, JStr(S_ab), S_count, JInt(1)),
           Obj1(S_cadastrNumbers, JArr(<<JInt(1)>>))>>)

SubValues ==
    {JInt(i) : i \in 0..MaxNum} \cup
    {JNull, JBool(TRUE), JBool(FALSE), JFloat(0), JStr(<<>>), JStr(S_ab),
     JArr(<<>>), JObj(<<>>),
     SubMigration, SubMigrationPartial, SubListOnly, SubOpenClose, SubVehicle,
     SubCadastr, SubList}

NamedKeys ==
    {S_kvedStatistic, S_intelligenceStatistic, S_migrationRegionStatistic,
     S_cadastrEstateStatistic, S_statusStats, S_openCloseStatistic, S_vehicleStatistic}

\* What a second occurrence of a key is tried with
SecondValues == {JNull, JObj(<<>>), JArr(<<>>), SubMigrationPartial, SubList}

\* Every named substructure at once
DocAllNamed ==
    JObj(<<KV(S_a, Obj2(S_kvedStatistic, SubList, S_statusStats, Obj1(S_a, JInt(1)))),
           KV(S_intelligenceStatistic, SubList),
           KV(S_b, JArr(<<Obj1(S_migrationRegionStatistic, SubMigration),
                          Obj1(S_cadastrEstateStatistic, SubCadastr)>>)),
           KV(S_openCloseStatistic, SubOpenClose),
           KV(S_vehicleStatistic, SubVehicle)>>)

ExtractInputs ==
    {InData(Nest(d, Obj2(S_a, JInt(1), k, v))) :
        d \in 0..MaxDepth, k \in NamedKeys, v \in SubValues}
    \cup {InData(Obj2(S_a, Obj1(k, v1), S_b, Obj1(k, v2))) :
            k \in NamedKeys, v1 \in SecondValues, v2 \in SecondValues}
    \cup {InData(Obj2(S_a, JArr(<<Obj1(S_x, Obj1(k, v1))>>), k, v2)) :
            k \in NamedKeys, v1 \in SecondValues, v2 \in SecondValues}
    \cup {InData(Obj2(S_a, Obj2(k, JNull, S_b, Obj1(k, v1)), S_x, Obj1(k, v2))) :
            k \in NamedKeys, v1 \in SecondValues, v2 \in SecondValues}
    \cup {InData(DocAllNamed), InRawData(DocAllNamed), InRawDataLower(DocAllNamed),
          InData(JArr(<<DocAllNamed>>)), InData(JInt(5)), InData(JObj(<<>>)), JObj(<<>>),
          JArr(<<DocAllNamed>>), Obj1(S_raw_response, JArr(<<>>)),
          Obj2(S_data, JInt(0), S_raw_response, JStr(S_ab))}

InitExtractCall ==
    /\ swot_data \in ExtractInputs
    /\ pc = "extract_start"
    /\ InitCall
    /\ InitDirect("extract_statistics")

NextExtract ==
    \/ ExtractStatistics
    \/ ExtractKved
    \/ ExtractIntelligence
    \/ ExtractMigration
    \/ ExtractCadastr
    \/ ExtractStatus
    \/ ExtractOpenClose
    \/ ExtractVehicle

SpecExtract == InitExtractCall /\ [][NextExtract]_vars

----------------------------------------------------------------------------
\* Notions the properties are stated in, defined on the tree alone.

\* The children of a node in their natural order: the values of an object's
\* entries in insertion order, the elements of an array by ascending index
ChildrenOf(v) ==
    IF IsDict(v) THEN [n \in 1..Len(v.kv) |-> v.kv[n].v]
    ELSE IF IsList(v) THEN v.el
    ELSE <<>>

\* The positions of all nodes of the tree v (rooted at pos) in pre-order
RECURSIVE PreOrderPositions(_, _)
RECURSIVE PreOrderPositionsFrom(_, _, _)
PreOrderPositionsFrom(children, pos, n) ==
    IF n > Len(children) THEN <<>>
    ELSE PreOrderPositions(children[n], Append(pos, n))
            \o PreOrderPositionsFrom(children, pos, n + 1)
PreOrderPositions(v, pos) ==
    <<pos>> \o PreOrderPositionsFrom(ChildrenOf(v), pos, 1)

\* The nodes of the tree v in pre-order
RECURSIVE PreOrderNodes(_)
RECURSIVE PreOrderNodesFrom(_, _)
PreOrderNodesFrom(children, n) ==
    IF n > Len(children) THEN <<>>
    ELSE PreOrderNodes(children[n]) \o PreOrderNodesFrom(children, n + 1)
PreOrderNodes(v) == <<v>> \o PreOrderNodesFrom(ChildrenOf(v), 1)

\* Some object of the tree carries the key
Occurs(tree, key) ==
    \E n \in 1..Len(PreOrderNodes(tree)) :
        IsDict(PreOrderNodes(tree)[n]) /\ HasKey(PreOrderNodes(tree)[n], key)

\* The value under the key in the first object, in pre-order, that carries it
FirstOccurrence(tree, key) ==
    LET nodes == PreOrderNodes(tree)
        carries(n) == IsDict(nodes[n]) /\ HasKey(nodes[n], key)
        first == CHOOSE n \in 1..Len(nodes) :
                    carries(n) /\ \A m \in 1..(n - 1) : ~carries(m)
    IN  Item(nodes[first], key)

\* How deep below the tree's root the first object carrying the key lies
RECURSIVE DepthOfKey(_, _)
DepthOfKey(tree, key) ==
    IF IsDict(tree) /\ HasKey(tree, key) THEN 0
    ELSE LET children == ChildrenOf(tree)
             first == CHOOSE n \in 1..Len(children) : Occurs(children[n], key)
         IN  1 + DepthOfKey(children[first], key)

\* A JSON Number: bool, string and null are none
IsNumber(v) == v.t \in {"int", "float"}

\* Twice the value of a JSON Number
TwiceValue(v) == IF v.t = "int" THEN 2 * v.i ELSE v.h

\* The integer part of a JSON Number: the integer q nearest to it between it and 0
IntegerPart(v) ==
    LET h == TwiceValue(v)
        a == IF h < 0 THEN -h ELSE h
    IN  CHOOSE q \in -a..a :
            IF h >= 0 THEN 2 * q <= h /\ h < 2 * q + 2
            ELSE 2 * q - 2 < h /\ h <= 2 * q

\* The elements of seq whose canonical string form no earlier element has
RECURSIVE FirstOccurrencesFrom(_, _)
FirstOccurrencesFrom(seq, n) ==
    IF n > Len(seq) THEN <<>>
    ELSE (IF \E m \in 1..(n - 1) : PyStr(seq[m]) = PyStr(seq[n])
          THEN <<>> ELSE <<seq[n]>>) \o FirstOccurrencesFrom(seq, n + 1)

\* The path of the latest find_statistics call, lowered
LastKey == Lower(last.path)
LastCount == Get(last.obj, S_count)

----------------------------------------------------------------------------
\* Properties of process_swot_statistics, checked under SpecStatistics.

\* C2 (as claimed): once the walk of a tree has begun and the call has ended,
\* find_statistics has been invoked on every node of the tree exactly once, in
\* pre-order; the visits are as many as the tree has nodes.
C2_EveryNodeVisitedOnce ==
    last.called /\ pc \in {"stats_done", "stats_raised"}
        => /\ visited = PreOrderPositions(data, <<>>)
           /\ Len(visited) = Len(PreOrderNodes(data))

\* C3 (as claimed): the example document yields 3, 2 and 5; an object node
\* whose path matches the fop keywords adds its numeric count to fop_count and
\* to fop_count only, one whose path matches the company keywords adds it to
\* companies_count and to companies_count only.
C3_EachCountToItsCounterOnly ==
    /\ pc = "stats_done" /\ data = DocExample
        => statistics.fop_companies =
              [fop_count |-> 3, companies_count |-> 2, total_count |-> 5]
    /\ last.called /\ IsDict(last.obj) /\ IsNumber(LastCount) /\ MatchesFop(LastKey)
        => /\ 2 * statistics.fop_companies.fop_count =
                 2 * last.before.fop_companies.fop_count + TwiceValue(LastCount)
           /\ statistics.fop_companies.companies_count =
                 last.before.fop_companies.companies_count
    /\ last.called /\ IsDict(last.obj) /\ IsNumber(LastCount) /\ MatchesCompany(LastKey)
        => /\ 2 * statistics.fop_companies.companies_count =
                 2 * last.before.fop_companies.companies_count + TwiceValue(LastCount)
           /\ statistics.fop_companies.fop_count =
                 last.before.fop_companies.fop_count

\* C3 (amended): the example document yields 3, 2 and 5; an object node whose
\* path matches the fop keywords adds the integer part of its numeric count to
\* fop_count, one whose path matches the company keywords adds it to
\* companies_count; a node matching one of the two keyword sets and not the
\* other leaves the other counter as it was.
C3_EachCountToEveryMatchedCounter ==
    /\ pc = "stats_done" /\ data = DocExample
        => statistics.fop_companies =
              [fop_count |-> 3, companies_count |-> 2, total_count |-> 5]
    /\ last.called /\ IsDict(last.obj) /\ IsNumber(LastCount) /\ MatchesFop(LastKey)
        => /\ statistics.fop_companies.fop_count =
                 last.before.fop_companies.fop_count + IntegerPart(LastCount)
           /\ ~MatchesCompany(LastKey)
                 => statistics.fop_companies.companies_count =
                       last.before.fop_companies.companies_count
    /\ last.called /\ IsDict(last.obj) /\ IsNumber(LastCount) /\ MatchesCompany(LastKey)
        => /\ statistics.fop_companies.companies_count =
                 last.before.fop_companies.companies_count + IntegerPart(LastCount)
           /\ ~MatchesFop(LastKey)
                 => statistics.fop_companies.fop_count =
                       last.before.fop_companies.fop_count

\* A node whose path matches both keyword sets and whose count has a fraction
\* has just been visited and has raised both counters
C3_Witness ==
    /\ pc = "stats_walk"
    /\ last.called /\ IsDict(last.obj)
    /\ MatchesFop(LastKey) /\ MatchesCompany(LastKey)
    /\ LastCount.t = "float" /\ LastCount.h % 2 = 1
    /\ statistics.fop_companies.fop_count > last.before.fop_companies.fop_count
    /\ statistics.fop_companies.companies_count
          > last.before.fop_companies.companies_count

\* C4: in every returned record, the early return included, total_count is
\* fop_count + companies_count.
C4_TotalIsSum ==
    pc = "stats_done"
        => statistics.fop_companies.total_count =
              statistics.fop_companies.fop_count
                + statistics.fop_companies.companies_count

\* A record returned after a walk that raised both counters
C4_Witness ==
    /\ pc = "stats_done"
    /\ last.called
    /\ statistics.fop_companies.fop_count > 0
    /\ statistics.fop_companies.companies_count > 0
    /\ statistics.fop_companies.fop_count # statistics.fop_companies.companies_count

\* The counters of a record, the float ones by their doubled value
Counters(s) ==
    <<s.fop_companies.fop_count, s.fop_companies.companies_count,
      s.land_plots.count, PyFloat(s.land_plots.total_area), s.objects.count,
      s.public_procurements.count, PyFloat(s.public_procurements.total_amount)>>

RecognizedNames == {S_count, S_area, S_total_area, S_amount, S_total_amount}

\* C5 (as claimed): a call of find_statistics changes a counter only if the
\* node holds a JSON Number under one of the recognized names; a String, Null,
\* Bool, array or object there leaves every counter unchanged.
C5_OnlyNumbersAreCounted ==
    last.called /\ Counters(statistics) # Counters(last.before)
        => /\ IsDict(last.obj)
           /\ \E name \in RecognizedNames : IsNumber(Get(last.obj, name))

\* C6 (as claimed): at a visited node whose path matches the Kved keywords, an
\* array node has its elements appended to kved_list, and an object node with a
\* `list` or `items` array has that array's elements appended.
C6_KvedElementsAppended ==
    last.called /\ pc \in {"stats_walk", "stats_raised"} /\ MatchesKved(LastKey)
        => LET before == last.before.kved.kved_list
               after == statistics.kved.kved_list
           IN  /\ IsList(last.obj) => after = before \o last.obj.el
               /\ IsDict(last.obj) /\ IsList(Get(last.obj, S_list))
                     => after = before \o Get(last.obj, S_list).el
               /\ IsDict(last.obj) /\ ~IsList(Get(last.obj, S_list))
                                   /\ IsList(Get(last.obj, S_items))
                     => after = before \o Get(last.obj, S_items).el

\* C7: in every returned record kved_list is the sequence of the first
\* occurrences, by canonical string form, of the accumulated elements in their
\* accumulation order; no two of its elements have the same canonical string
\* form, and kved_count is its length.
C7_KvedDeduplicated ==
    pc = "stats_done"
        => LET kved_list == statistics.kved.kved_list
           IN  /\ kved_list = FirstOccurrencesFrom(accumulated, 1)
               /\ \A m, n \in 1..Len(kved_list) :
                     m # n => PyStr(kved_list[m]) # PyStr(kved_list[n])
               /\ statistics.kved.kved_count = Len(kved_list)

\* A record returned after elements with equal canonical string forms, some of
\* them unequal as values, were accumulated
C7_Witness ==
    /\ pc = "stats_done"
    /\ Len(statistics.kved.kved_list) >= 2
    /\ Len(statistics.kved.kved_list) < Len(accumulated)
    /\ \E m, n \in 1..Len(accumulated) :
          /\ m < n
          /\ accumulated[m].t # accumulated[n].t
          /\ PyStr(accumulated[m]) = PyStr(accumulated[n])

----------------------------------------------------------------------------
\* Properties of extract_statistics, checked under SpecExtract.

\* The locals holding the results of find_field, and the names looked up
Lookups ==
    {<<"kved_stat", S_kvedStatistic>>, <<"intel_stat", S_intelligenceStatistic>>,
     <<"migration_stat", S_migrationRegionStatistic>>,
     <<"cadastr_stat", S_cadastrEstateStatistic>>, <<"status_stats", S_statusStats>>,
     <<"open_close_stat", S_openCloseStatistic>>, <<"vehicle_stat", S_vehicleStatistic>>}

\* C1 (as claimed): on a tree in which some object carries the target name,
\* find_field returns the value under that name in the first such object in
\* pre-order, whatever that value is.
C1_FindFieldReturnsFirstOccurrence ==
    \A p \in Lookups :
        found[p[1]].t # "unset" /\ Occurs(data, p[2])
            => found[p[1]] = FirstOccurrence(data, p[2])

\* The six aggregates kept of migrationRegionStatistic
MigrationAggregates ==
    {S_migrationTotalIn, S_migrationTotalOut, S_migrationTotalFopIn,
     S_migrationTotalFopOut, S_migrationTotalCompanyIn, S_migrationTotalCompanyOut}

\* out holds exactly the names, each with the value src holds (null when missing)
HoldsExactly(out, names, src) ==
    /\ IsDict(out)
    /\ Len(out.kv) = Cardinality(names)
    /\ {out.kv[n].k : n \in 1..Len(out.kv)} = names
    /\ \A n \in 1..Len(out.kv) :
          out.kv[n].v = IF HasKey(src, out.kv[n].k) THEN Item(src, out.kv[n].k)
                        ELSE JNull

\* C8: when the first migrationRegionStatistic of the data payload, at
\* whatever depth, is an object carrying a `list` field, the output
\* migration_region_statistic holds exactly the six aggregates, each with the
\* source's value (null when missing), and neither `list` nor any other key.
C8_MigrationProjected ==
    found.migration_stat.t # "unset" /\ Occurs(data, S_migrationRegionStatistic)
        => LET src == FirstOccurrence(data, S_migrationRegionStatistic)
               out == extracted.migration_region_statistic
           IN  IsDict(src) /\ HasKey(src, S_list)
                  => HoldsExactly(out, MigrationAggregates, src) /\ ~HasKey(out, S_list)

\* A migrationRegionStatistic two levels down, with a list, with some of the
\* aggregates present and some missing, has been projected
C8_Witness ==
    /\ found.migration_stat.t # "unset"
    /\ Occurs(data, S_migrationRegionStatistic)
    /\ DepthOfKey(data, S_migrationRegionStatistic) >= 2
    /\ LET src == FirstOccurrence(data, S_migrationRegionStatistic)
       IN  /\ IsDict(src) /\ HasKey(src, S_list)
           /\ HasKey(src, S_migrationTotalOut) /\ ~HasKey(src, S_migrationTotalIn)
    /\ Get(extracted.migration_region_statistic, S_migrationTotalOut) = JInt(4)

\* No object of the tree carries the key cadastrNumbers
RECURSIVE NoCadastrNumbers(_)
NoCadastrNumbers(v) ==
    /\ IsDict(v) => ~HasKey(v, S_cadastrNumbers)
    /\ \A n \in 1..Len(ChildrenOf(v)) : NoCadastrNumbers(ChildrenOf(v)[n])

\* b is a but for the cadastrNumbers entries of a's objects: same kinds, same
\* keys in the same order, same array lengths, same scalars
RECURSIVE SameButCadastrNumbers(_, _)
SameButCadastrNumbers(a, b) ==
    IF IsDict(a)
    THEN LET others == SelectSeq(a.kv, LAMBDA e : e.k # S_cadastrNumbers)
         IN  /\ IsDict(b)
             /\ Len(b.kv) = Len(others)
             /\ \A n \in 1..Len(others) :
                   /\ b.kv[n].k = others[n].k
                   /\ SameButCadastrNumbers(others[n].v, b.kv[n].v)
    ELSE IF IsList(a)
    THEN /\ IsList(b)
         /\ Len(b.el) = Len(a.el)
         /\ \A n \in 1..Len(a.el) : SameButCadastrNumbers(a.el[n], b.el[n])
    ELSE a = b

\* C9 (as claimed): the output cadastr_estate_statistic has no cadastrNumbers
\* key at any level and is otherwise identical to the located
\* cadastrEstateStatistic.
C9_CadastrNumbersStripped ==
    found.cadastr_stat.t \notin {"unset", "null"}
        => /\ NoCadastrNumbers(extracted.cadastr_estate_statistic)
           /\ SameButCadastrNumbers(found.cadastr_stat,
                                    extracted.cadastr_estate_statistic)

\* The retained names of the three projected categories, by local and output entry
ProjectedCategories ==
    {<<"migration_stat", "migration_region_statistic", MigrationAggregates>>,
     <<"open_close_stat", "open_close_statistic",
       {S_companyOpen, S_companyCurrentClose, S_companyPercentLive, S_fopOpen,
        S_fopCurrentClose, S_fopPercentLive, S_totalOpen, S_totalCurrentClose,
        S_totalPercentLive}>>,
     <<"vehicle_stat", "vehicle_statistic",
       {S_headerCompanyWithCount, S_headerCompanyWithoutCount, S_headerVehicleCount}>>}

\* C10 (as claimed): when a projected substructure is located and is an object
\* none of whose retained fields is present, the empty object included, the
\* category is emitted with all its retained names (six, nine, three) valued
\* null.
C10_AllNullCategoryEmitted ==
    \A c \in ProjectedCategories :
        LET located == found[c[1]]
        IN  /\ located.t = "obj"
            /\ \A name \in c[3] : ~HasKey(located, name)
            => /\ HoldsExactly(extracted[c[2]], c[3], located)
               /\ \A n \in 1..Len(extracted[c[2]].kv) : extracted[c[2]].kv[n].v = JNull

----------------------------------------------------------------------------
\* What the code does guarantee where C1, C2, C9 and C10 fail.

\* Beside C1: when the value at the first occurrence is not null, find_field
\* returns it.
FindFieldReturnsNonNullFirstOccurrence ==
    \A p \in Lookups :
        /\ found[p[1]].t # "unset"
        /\ Occurs(data, p[2])
        /\ FirstOccurrence(data, p[2]) # JNull
        => found[p[1]] = FirstOccurrence(data, p[2])

\* Beside C2: a walk that returns has invoked find_statistics on every node
\* exactly once, in pre-order.
ReturnedWalkVisitedEveryNodeOnce ==
    last.called /\ pc = "stats_done"
        => /\ visited = PreOrderPositions(data, <<>>)
           /\ Len(visited) = Len(PreOrderNodes(data))

\* Beside C9: a located value that Python takes for true is copied without its
\* cadastrNumbers keys and otherwise unchanged; for any other the output is {}.
TruthyCadastrStripped ==
    found.cadastr_stat.t # "unset"
        => IF Truthy(found.cadastr_stat)
           THEN /\ NoCadastrNumbers(extracted.cadastr_estate_statistic)
                /\ SameButCadastrNumbers(found.cadastr_stat,
                                         extracted.cadastr_estate_statistic)
           ELSE extracted.cadastr_estate_statistic = JObj(<<>>)

\* Beside C10: a located object that is not empty and holds none of the
\* retained fields is emitted with all the retained names valued null.
NonEmptyAllNullCategoryEmitted ==
    \A c \in ProjectedCategories :
        LET located == found[c[1]]
        IN  /\ located.t = "obj" /\ located.kv # <<>>
            /\ \A name \in c[3] : ~HasKey(located, name)
            => /\ HoldsExactly(extracted[c[2]], c[3], located)
               /\ \A n \in 1..Len(extracted[c[2]].kv) : extracted[c[2]].kv[n].v = JNull

----------------------------------------------------------------------------
\* The categories copied verbatim, checked under SpecExtract.

\* The local, the output entry and the empty value of each verbatim category
VerbatimCategories ==
    {<<"kved_stat", "kved_statistic", JArr(<<>>)>>,
     <<"intel_stat", "intelligence_statistic", JArr(<<>>)>>,
     <<"status_stats", "status_stats", JObj(<<>>)>>}

\* C11 (as claimed): once find_field has looked one of kvedStatistic,
\* intelligenceStatistic and statusStats up, the output entry equals the
\* located value verbatim when a value was located (find_field returned other
\* than None), and is the empty list, or the empty object for statusStats,
\* when none was.
C11_LocatedCopiedVerbatim ==
    \A c \in VerbatimCategories :
        found[c[1]].t # "unset"
            => extracted[c[2]] = IF found[c[1]].t # "null" THEN found[c[1]] ELSE c[3]

\* Beside C11: a located value that Python takes for true is the output entry,
\* for any other the entry keeps its empty value.
TruthyLocatedCopiedVerbatim ==
    \A c \in VerbatimCategories :
        found[c[1]].t # "unset"
            => extracted[c[2]] = IF Truthy(found[c[1]]) THEN found[c[1]] ELSE c[3]

----------------------------------------------------------------------------
\* Nodes matching several categories, checked under SpecStatistics.

\* The five counts of a record in a fixed order
CountsOf(s) ==
    <<s.fop_companies.fop_count, s.fop_companies.companies_count,
      s.land_plots.count, s.objects.count, s.public_procurements.count>>

\* Which of the five counts the path matches
MatchesOf(key_lower) ==
    <<MatchesFop(key_lower), MatchesCompany(key_lower), MatchesLand(key_lower),
      MatchesObject(key_lower), MatchesProcurement(key_lower)>>

\* C12 (as claimed): when find_statistics has been called on an object node
\* with a numeric count, the counter of every category whose keywords the
\* node's path matches has grown by that count (its integer part), whichever
\* other categories the path matches as well; none is skipped.
C12_EveryMatchedCategoryCounts ==
    last.called /\ IsDict(last.obj) /\ IsNumber(LastCount)
        => \A n \in 1..5 :
              MatchesOf(LastKey)[n]
                 => CountsOf(statistics)[n]
                       = CountsOf(last.before)[n] + IntegerPart(LastCount)

\* Beside C12: a call of find_statistics that does not raise adds the count to
\* the counter of every matched category and to no other counter.
EveryMatchedCategoryCountsUnlessRaised ==
    last.called /\ IsDict(last.obj) /\ IsNumber(LastCount) /\ pc # "stats_raised"
        => \A n \in 1..5 :
              CountsOf(statistics)[n]
                 = CountsOf(last.before)[n]
                     + IF MatchesOf(LastKey)[n] THEN IntegerPart(LastCount) ELSE 0

\* A node matching three categories at once has been counted in all three
SeveralCategoriesCounted ==
    /\ last.called /\ IsDict(last.obj) /\ IsNumber(LastCount)
    /\ Cardinality({n \in 1..5 : MatchesOf(LastKey)[n]}) >= 2
    /\ IntegerPart(LastCount) # 0

----------------------------------------------------------------------------
\* The land and procurement sums, checked under SpecStatistics.

\* Every node of the tree v (reached under path) with its path, in pre-order
RECURSIVE NodesWithPaths(_, _)
RECURSIVE NodesWithPathsFrom(_, _, _)
NodesWithPathsFrom(v, path, n) ==
    IF n > Len(ChildrenOf(v)) THEN <<>>
    ELSE NodesWithPaths(ChildrenOf(v)[n],
                        IF IsDict(v) THEN DictPath(path, v.kv[n].k)
                        ELSE ListPath(path, n - 1))
            \o NodesWithPathsFrom(v, path, n + 1)
NodesWithPaths(v, path) ==
    <<[obj |-> v, path |-> path]>> \o NodesWithPathsFrom(v, path, 1)

\* The sum of the integers of a sequence
RECURSIVE SumSeq(_)
SumSeq(seq) == IF seq = <<>> THEN 0 ELSE Head(seq) + SumSeq(Tail(seq))

\* The sum of term(node) over the nodes
SumOver(nodes, term(_)) == SumSeq([n \in 1..Len(nodes) |-> term(nodes[n])])

\* The integer part of the JSON Number an object holds under name, else 0
IntegerUnder(obj, name) ==
    IF IsNumber(Get(obj, name)) THEN IntegerPart(Get(obj, name)) ELSE 0

\* Twice the JSON Number an object holds under name, else 0
TwiceUnder(obj, name) ==
    IF IsNumber(Get(obj, name)) THEN TwiceValue(Get(obj, name)) ELSE 0

\* The sums of C13 over the object nodes whose path passes matches
CountSum(matches(_)) ==
    SumOver(NodesWithPaths(data, <<>>),
            LAMBDA nd : IF IsDict(nd.obj) /\ matches(Lower(nd.path))
                        THEN IntegerUnder(nd.obj, S_count) ELSE 0)
TwiceSum(matches(_), name, total_name) ==
    SumOver(NodesWithPaths(data, <<>>),
            LAMBDA nd : IF IsDict(nd.obj) /\ matches(Lower(nd.path))
                        THEN TwiceUnder(nd.obj, name) + TwiceUnder(nd.obj, total_name)
                        ELSE 0)

\* C13 (as claimed): in a returned record land_plots.count is the sum of the
\* numeric count (a JSON Number, by its integer part) over the object nodes
\* whose path matches the land keywords, and land_plots.total_area is the sum
\* over those nodes of every numeric area plus every numeric total_area;
\* likewise public_procurements.count and total_amount over the nodes matching
\* the procurement keywords, with amount and total_amount.
C13_LandAndProcurementSums ==
    pc = "stats_done"
        => /\ statistics.land_plots.count = CountSum(MatchesLand)
           /\ PyFloat(statistics.land_plots.total_area)
                 = TwiceSum(MatchesLand, S_area, S_total_area)
           /\ statistics.public_procurements.count = CountSum(MatchesProcurement)
           /\ PyFloat(statistics.public_procurements.total_amount)
                 = TwiceSum(MatchesProcurement, S_amount, S_total_amount)

\* What int() and float() make of the value an object holds under name when
\* isinstance(value, (int, float)) holds, a bool included; else 0
PyIntUnder(obj, name) ==
    IF HasNumeric(obj, name) THEN PyInt(Get(obj, name)) ELSE 0
PyFloatUnder(obj, name) ==
    IF HasNumeric(obj, name) THEN PyFloat(Get(obj, name)) ELSE 0

\* Beside C13: with true and false counted as 1 and 0, the sums hold of every
\* returned record.
LandAndProcurementSumsWithBools ==
    pc = "stats_done"
        => LET nodes == NodesWithPaths(data, <<>>)
               count(matches(_)) ==
                   SumOver(nodes,
                           LAMBDA nd : IF IsDict(nd.obj) /\ matches(Lower(nd.path))
                                       THEN PyIntUnder(nd.obj, S_count) ELSE 0)
               total(matches(_), name, total_name) ==
                   SumOver(nodes,
                           LAMBDA nd : IF IsDict(nd.obj) /\ matches(Lower(nd.path))
                                       THEN PyFloatUnder(nd.obj, name)
                                               + PyFloatUnder(nd.obj, total_name)
                                       ELSE 0)
           IN  /\ statistics.land_plots.count = count(MatchesLand)
               /\ PyFloat(statistics.land_plots.total_area)
                     = total(MatchesLand, S_area, S_total_area)
               /\ statistics.public_procurements.count = count(MatchesProcurement)
               /\ PyFloat(statistics.public_procurements.total_amount)
                     = total(MatchesProcurement, S_amount, S_total_amount)

----------------------------------------------------------------------------
\* Two calls in sequence on the same document.

\* A caller that has got a record from process_swot_statistics calls it once
\* more on the same swot_data; the locals of the call are new
ProcessSwotStatisticsAgain ==
    /\ entry = "process_swot_statistics"
    /\ pc = "stats_done"
    /\ calls = 1
    /\ calls' = 2
    /\ first_record' = statistics
    /\ pc' = "stats_start"
    /\ data' = JNull
    /\ stack' = <<>>
    /\ visited' = <<>>
    /\ accumulated' = <<>>
    /\ last' = NoCall
    /\ UNCHANGED <<swot_data, statistics, found, extracted, entry, file,
                   openpyxl_available, json_file, excel_file, artifacts, returned,
                   invoked, client>>

\* The same for extract_statistics
ExtractStatisticsAgain ==
    /\ entry = "extract_statistics"
    /\ pc = "extract_done"
    /\ calls = 1
    /\ calls' = 2
    /\ first_record' = extracted
    /\ pc' = "extract_start"
    /\ data' = JNull
    /\ found' = InitFound
    /\ UNCHANGED <<swot_data, stack, statistics, visited, accumulated, last, extracted,
                   entry, file, openpyxl_available, json_file, excel_file, artifacts,
                   returned, invoked, client>>

InitTwice == InitStatisticsCall \/ InitExtractCall

NextTwice ==
    \/ ProcessSwotStatistics
    \/ find_statistics
    \/ ProcessSwotStatisticsReturn
    \/ ProcessSwotStatisticsAgain
    \/ ExtractStatistics
    \/ ExtractKved
    \/ ExtractIntelligence
    \/ ExtractMigration
    \/ ExtractCadastr
    \/ ExtractStatus
    \/ ExtractOpenClose
    \/ ExtractVehicle
    \/ ExtractStatisticsAgain

SpecTwice == InitTwice /\ [][NextTwice]_vars

\* C14: the record a second call of process_swot_statistics, or of
\* extract_statistics, returns for the same document equals the record the
\* first call returned; nothing the first call accumulated is in it twice.
C14_SecondCallReturnsTheSame ==
    /\ calls = 2 /\ pc = "stats_done" => statistics = first_record
    /\ calls = 2 /\ pc = "extract_done" => extracted = first_record

\* A second call of process_swot_statistics has returned counters and a kved
\* list that are not the initial ones
C14_Witness ==
    /\ calls = 2 /\ pc = "stats_done"
    /\ statistics.fop_companies.total_count > 0
    /\ statistics.kved.kved_count > 0

\* A second call of extract_statistics has returned a record that is not the
\* initial one
SecondExtractReturned ==
    /\ calls = 2 /\ pc = "extract_done"
    /\ extracted.kved_statistic # JArr(<<>>)
    /\ extracted.migration_region_statistic # JObj(<<>>)

----------------------------------------------------------------------------
\* SWOTProcessor.save_statistics_to_excel: the workbook built at lines 282-568.
\* A sheet is its title and its rows; a row is its cells, each a JSON scalar.
\* Fills, fonts, alignments and column widths are left out: they raise nothing
\* and change no cell.

Sheet_kved ==
    <<"u041a", "u0412", "u0415", "u0414">>   \* \u041a\u0412\u0415\u0414
Sheet_intel ==
    <<"u0421", "u0442", "u0430", "u043d", "u0438", " ", "u0440", "u0435", "u0454", "u0441", "u0442", "u0440", "u0430", "u0446", "u0456", "u0457">>   \* \u0421\u0442\u0430\u043d\u0438 \u0440\u0435\u0454\u0441\u0442\u0440\u0430\u0446\u0456\u0457
Sheet_migration ==
    <<"u041c", "u0456", "u0433", "u0440", "u0430", "u0446", "u0456", "u044f">>   \* \u041c\u0456\u0433\u0440\u0430\u0446\u0456\u044f
Sheet_open_close ==
    <<"u0412", "u0456", "u0434", "u043a", "u0440", "u0438", "u0442", "u0456", "_", "u0417", "u0430", "u043a", "u0440", "u0438", "u0442", "u0456">>   \* \u0412\u0456\u0434\u043a\u0440\u0438\u0442\u0456_\u0417\u0430\u043a\u0440\u0438\u0442\u0456
Sheet_vehicle ==
    <<"u0422", "u0440", "u0430", "u043d", "u0441", "u043f", "u043e", "u0440", "u0442">>   \* \u0422\u0440\u0430\u043d\u0441\u043f\u043e\u0440\u0442
Sheet_cadastr ==
    <<"u041a", "u0430", "u0434", "u0430", "u0441", "u0442", "u0440", "_", "u0412", "u043b", "u0430", "u0441", "u043d", "u0456", "u0441", "u0442", "u044c">>   \* \u041a\u0430\u0434\u0430\u0441\u0442\u0440_\u0412\u043b\u0430\u0441\u043d\u0456\u0441\u0442\u044c
Sheet_purpose ==
    <<"u041a", "u0430", "u0434", "u0430", "u0441", "u0442", "u0440", "_", "u041f", "u0440", "u0438", "u0437", "u043d", "u0430", "u0447", "u0435", "u043d", "u043d", "u044f">>   \* \u041a\u0430\u0434\u0430\u0441\u0442\u0440_\u041f\u0440\u0438\u0437\u043d\u0430\u0447\u0435\u043d\u043d\u044f
Sheet_status ==
    <<"u0421", "u0442", "u0430", "u0442", "u0443", "u0441", "u0438">>   \* \u0421\u0442\u0430\u0442\u0443\u0441\u0438
H_kved_id ==
    <<"u041a", "u0412", "u0415", "u0414", " ", "I", "D">>   \* \u041a\u0412\u0415\u0414 ID
H_name ==
    <<"u041d", "u0430", "u0437", "u0432", "u0430">>   \* \u041d\u0430\u0437\u0432\u0430
H_records ==
    <<"u041a", "u0456", "u043b", "u044c", "u043a", "u0456", "u0441", "u0442", "u044c", " ", "u0437", "u0430", "u043f", "u0438", "u0441", "u0456", "u0432">>   \* \u041a\u0456\u043b\u044c\u043a\u0456\u0441\u0442\u044c \u0437\u0430\u043f\u0438\u0441\u0456\u0432
H_state ==
    <<"u0421", "u0442", "u0430", "u043d">>   \* \u0421\u0442\u0430\u043d
H_indicator ==
    <<"u041f", "u043e", "u043a", "u0430", "u0437", "u043d", "u0438", "u043a">>   \* \u041f\u043e\u043a\u0430\u0437\u043d\u0438\u043a
H_value ==
    <<"u0417", "u043d", "u0430", "u0447", "u0435", "u043d", "u043d", "u044f">>   \* \u0417\u043d\u0430\u0447\u0435\u043d\u043d\u044f
H_owner_form ==
    <<"u0422", "u0438", "u043f", " ", "u0432", "u043b", "u0430", "u0441", "u043d", "u043e", "u0441", "u0442", "u0456">>   \* \u0422\u0438\u043f \u0432\u043b\u0430\u0441\u043d\u043e\u0441\u0442\u0456
H_count ==
    <<"u041a", "u0456", "u043b", "u044c", "u043a", "u0456", "u0441", "u0442", "u044c">>   \* \u041a\u0456\u043b\u044c\u043a\u0456\u0441\u0442\u044c
H_area ==
    <<"u041f", "u043b", "u043e", "u0449", "u0430">>   \* \u041f\u043b\u043e\u0449\u0430
H_ngo_price ==
    <<"u0426", "u0456", "u043d", "u0430", " ", "u041d", "u0413", "u041e">>   \* \u0426\u0456\u043d\u0430 \u041d\u0413\u041e
H_purpose ==
    <<"u041f", "u0440", "u0438", "u0437", "u043d", "u0430", "u0447", "u0435", "u043d", "u043d", "u044f">>   \* \u041f\u0440\u0438\u0437\u043d\u0430\u0447\u0435\u043d\u043d\u044f
H_status ==
    <<"u0421", "u0442", "u0430", "u0442", "u0443", "u0441">>   \* \u0421\u0442\u0430\u0442\u0443\u0441
H_land_plots ==
    <<"u0417", "u0435", "u043c", "u0435", "u043b", "u044c", "u043d", "u0456", " ", "u0434", "u0456", "u043b", "u044f", "u043d", "u043a", "u0438">>   \* \u0417\u0435\u043c\u0435\u043b\u044c\u043d\u0456 \u0434\u0456\u043b\u044f\u043d\u043a\u0438
H_objects ==
    <<"u041e", "u0431", "'", "u0454", "u043a", "u0442", "u0438">>   \* \u041e\u0431'\u0454\u043a\u0442\u0438
L_total ==
    <<"u0412", "u0441", "u044c", "u043e", "u0433", "u043e">>   \* \u0412\u0441\u044c\u043e\u0433\u043e
L_migrationTotalIn ==
    <<"u041c", "u0456", "u0433", "u0440", "u0430", "u0446", "u0456", "u044f", " ", "u0432", "u0441", "u044c", "u043e", "u0433", "u043e", " ", "(", "u0432", "u0445", "u0456", "u0434", ")">>   \* \u041c\u0456\u0433\u0440\u0430\u0446\u0456\u044f \u0432\u0441\u044c\u043e\u0433\u043e (\u0432\u0445\u0456\u0434)
L_migrationTotalOut ==
    <<"u041c", "u0456", "u0433", "u0440", "u0430", "u0446", "u0456", "u044f", " ", "u0432", "u0441", "u044c", "u043e", "u0433", "u043e", " ", "(", "u0432", "u0438", "u0445", "u0456", "u0434", ")">>   \* \u041c\u0456\u0433\u0440\u0430\u0446\u0456\u044f \u0432\u0441\u044c\u043e\u0433\u043e (\u0432\u0438\u0445\u0456\u0434)
L_migrationTotalFopIn ==
    <<"u0424", "u041e", "u041f", " ", "u043c", "u0456", "u0433", "u0440", "u0430", "u0446", "u0456", "u044f", " ", "(", "u0432", "u0445", "u0456", "u0434", ")">>   \* \u0424\u041e\u041f \u043c\u0456\u0433\u0440\u0430\u0446\u0456\u044f (\u0432\u0445\u0456\u0434)
L_migrationTotalFopOut ==
    <<"u0424", "u041e", "u041f", " ", "u043c", "u0456", "u0433", "u0440", "u0430", "u0446", "u0456", "u044f", " ", "(", "u0432", "u0438", "u0445", "u0456", "u0434", ")">>   \* \u0424\u041e\u041f \u043c\u0456\u0433\u0440\u0430\u0446\u0456\u044f (\u0432\u0438\u0445\u0456\u0434)
L_migrationTotalCompanyIn ==
    <<"u041a", "u043e", "u043c", "u043f", "u0430", "u043d", "u0456", "u0457", " ", "u043c", "u0456", "u0433", "u0440", "u0430", "u0446", "u0456", "u044f", " ", "(", "u0432", "u0445", "u0456", "u0434", ")">>   \* \u041a\u043e\u043c\u043f\u0430\u043d\u0456\u0457 \u043c\u0456\u0433\u0440\u0430\u0446\u0456\u044f (\u0432\u0445\u0456\u0434)
L_migrationTotalCompanyOut ==
    <<"u041a", "u043e", "u043c", "u043f", "u0430", "u043d", "u0456", "u0457", " ", "u043c", "u0456", "u0433", "u0440", "u0430", "u0446", "u0456", "u044f", " ", "(", "u0432", "u0438", "u0445", "u0456", "u0434", ")">>   \* \u041a\u043e\u043c\u043f\u0430\u043d\u0456\u0457 \u043c\u0456\u0433\u0440\u0430\u0446\u0456\u044f (\u0432\u0438\u0445\u0456\u0434)
L_companyOpen ==
    <<"u041a", "u043e", "u043c", "u043f", "u0430", "u043d", "u0456", "u0457", " ", "u0432", "u0456", "u0434", "u043a", "u0440", "u0438", "u0442", "u0456">>   \* \u041a\u043e\u043c\u043f\u0430\u043d\u0456\u0457 \u0432\u0456\u0434\u043a\u0440\u0438\u0442\u0456
L_companyCurrentClose ==
    <<"u041a", "u043e", "u043c", "u043f", "u0430", "u043d", "u0456", "u0457", " ", "u0437", "u0430", "u043a", "u0440", "u0438", "u0442", "u0456">>   \* \u041a\u043e\u043c\u043f\u0430\u043d\u0456\u0457 \u0437\u0430\u043a\u0440\u0438\u0442\u0456
L_companyPercentLive ==
    <<"u041a", "u043e", "u043c", "u043f", "u0430", "u043d", "u0456", "u0457", " ", "%", " ", "u0436", "u0438", "u0432", "u0438", "u0445">>   \* \u041a\u043e\u043c\u043f\u0430\u043d\u0456\u0457 % \u0436\u0438\u0432\u0438\u0445
L_fopOpen ==
    <<"u0424", "u041e", "u041f", " ", "u0432", "u0456", "u0434", "u043a", "u0440", "u0438", "u0442", "u0456">>   \* \u0424\u041e\u041f \u0432\u0456\u0434\u043a\u0440\u0438\u0442\u0456
L_fopCurrentClose ==
    <<"u0424", "u041e", "u041f", " ", "u0437", "u0430", "u043a", "u0440", "u0438", "u0442", "u0456">>   \* \u0424\u041e\u041f \u0437\u0430\u043a\u0440\u0438\u0442\u0456
L_fopPercentLive ==
    <<"u0424", "u041e", "u041f", " ", "%", " ", "u0436", "u0438", "u0432", "u0438", "u0445">>   \* \u0424\u041e\u041f % \u0436\u0438\u0432\u0438\u0445
L_totalOpen ==
    <<"u0412", "u0441", "u044c", "u043e", "u0433", "u043e", " ", "u0432", "u0456", "u0434", "u043a", "u0440", "u0438", "u0442", "u0456">>   \* \u0412\u0441\u044c\u043e\u0433\u043e \u0432\u0456\u0434\u043a\u0440\u0438\u0442\u0456
L_totalCurrentClose ==
    <<"u0412", "u0441", "u044c", "u043e", "u0433", "u043e", " ", "u0437", "u0430", "u043a", "u0440", "u0438", "u0442", "u0456">>   \* \u0412\u0441\u044c\u043e\u0433\u043e \u0437\u0430\u043a\u0440\u0438\u0442\u0456
L_totalPercentLive ==
    <<"u0412", "u0441", "u044c", "u043e", "u0433", "u043e", " ", "%", " ", "u0436", "u0438", "u0432", "u0438", "u0445">>   \* \u0412\u0441\u044c\u043e\u0433\u043e % \u0436\u0438\u0432\u0438\u0445
L_headerCompanyWithCount ==
    <<"u041a", "u043e", "u043c", "u043f", "u0430", "u043d", "u0456", "u0457", " ", "u0437", " ", "u0442", "u0440", "u0430", "u043d", "u0441", "u043f", "u043e", "u0440", "u0442", "u043d", "u0438", "u043c", "u0438", " ", "u0437", "u0430", "u0441", "u043e", "u0431", "u0430", "u043c", "u0438">>   \* \u041a\u043e\u043c\u043f\u0430\u043d\u0456\u0457 \u0437 \u0442\u0440\u0430\u043d\u0441\u043f\u043e\u0440\u0442\u043d\u0438\u043c\u0438 \u0437\u0430\u0441\u043e\u0431\u0430\u043c\u0438
L_headerCompanyWithoutCount ==
    <<"u041a", "u043e", "u043c", "u043f", "u0430", "u043d", "u0456", "u0457", " ", "u0431", "u0435", "u0437", " ", "u0442", "u0440", "u0430", "u043d", "u0441", "u043f", "u043e", "u0440", "u0442", "u043d", "u0438", "u0445", " ", "u0437", "u0430", "u0441", "u043e", "u0431", "u0456", "u0432">>   \* \u041a\u043e\u043c\u043f\u0430\u043d\u0456\u0457 \u0431\u0435\u0437 \u0442\u0440\u0430\u043d\u0441\u043f\u043e\u0440\u0442\u043d\u0438\u0445 \u0437\u0430\u0441\u043e\u0431\u0456\u0432
L_headerVehicleCount ==
    <<"u0412", "u0441", "u044c", "u043e", "u0433", "u043e", " ", "u0442", "u0440", "u0430", "u043d", "u0441", "u043f", "u043e", "u0440", "u0442", "u043d", "u0438", "u0445", " ", "u0437", "u0430", "u0441", "u043e", "u0431", "u0456", "u0432">>   \* \u0412\u0441\u044c\u043e\u0433\u043e \u0442\u0440\u0430\u043d\u0441\u043f\u043e\u0440\u0442\u043d\u0438\u0445 \u0437\u0430\u0441\u043e\u0431\u0456\u0432
S_kvedId ==
    <<"k", "v", "e", "d", "I", "d">>   \* kvedId
S_qntRecord ==
    <<"q", "n", "t", "R", "e", "c", "o", "r", "d">>   \* qntRecord
S_state ==
    <<"s", "t", "a", "t", "e">>   \* state
S_byOwnerForm ==
    <<"b", "y", "O", "w", "n", "e", "r", "F", "o", "r", "m">>   \* byOwnerForm
S_byPurpose ==
    <<"b", "y", "P", "u", "r", "p", "o", "s", "e">>   \* byPurpose
S_totalStat ==
    <<"t", "o", "t", "a", "l", "S", "t", "a", "t">>   \* totalStat
S_statistic ==
    <<"s", "t", "a", "t", "i", "s", "t", "i", "c">>   \* statistic
S_ngoPrice ==
    <<"n", "g", "o", "P", "r", "i", "c", "e">>   \* ngoPrice
S_landStat ==
    <<"l", "a", "n", "d", "S", "t", "a", "t">>   \* landStat
S_objectStat ==
    <<"o", "b", "j", "e", "c", "t", "S", "t", "a", "t">>   \* objectStat

\* dict.get(key, default)
GetOr(obj, key, default) == IF HasKey(obj, key) THEN Item(obj, key) ELSE default

\* ws.append takes None, a bool, a number or a string for a cell and raises
\* ValueError for a list or a dict
CellOk(v) == v.t \in {"null", "bool", "int", "float", "str"}

\* What a block of the workbook comes to: it raised, or the sheets it created
Raised == [raised |-> TRUE, sheets |-> <<>>]
NoSheets == [raised |-> FALSE, sheets |-> <<>>]
SheetOf(title, rows) ==
    IF \A r \in 1..Len(rows) : \A c \in 1..Len(rows[r]) : CellOk(rows[r][c])
    THEN [raised |-> FALSE, sheets |-> <<[title |-> title, rows |-> rows]>>]
    ELSE Raised

\* A header row or a label cell
Labels(strings) == [n \in 1..Len(strings) |-> JStr(strings[n])]

\* Lines 283-297 and 313-326: one row per item of a list, by item.get;
\* columns are the keys and their defaults
ListSheet(value, title, header, columns) ==
    IF ~Truthy(value) THEN NoSheets
    ELSE IF ~Iterable(value) THEN Raised
    ELSE LET items == IterItems(value)
         IN  IF \E n \in 1..Len(items) : ~IsDict(items[n]) THEN Raised
             ELSE SheetOf(title,
                          <<Labels(header)>> \o
                          [n \in 1..Len(items) |->
                              [c \in 1..Len(columns) |->
                                  GetOr(items[n], columns[c][1], columns[c][2])]])

KvedSheet(stats) ==
    ListSheet(stats.kved_statistic, Sheet_kved, <<H_kved_id, H_name, H_records>>,
              <<<<S_kvedId, JStr(<<>>)>>, <<S_name, JStr(<<>>)>>,
                <<S_qntRecord, JInt(0)>>>>)

IntelSheet(stats) ==
    ListSheet(stats.intelligence_statistic, Sheet_intel, <<H_state, H_records>>,
              <<<<S_state, JStr(<<>>)>>, <<S_qntRecord, JInt(0)>>>>)

\* The labels and keys of lines 351-356
MigrationRows ==
    <<<<L_migrationTotalIn, S_migrationTotalIn>>,
      <<L_migrationTotalOut, S_migrationTotalOut>>,
      <<L_migrationTotalFopIn, S_migrationTotalFopIn>>,
      <<L_migrationTotalFopOut, S_migrationTotalFopOut>>,
      <<L_migrationTotalCompanyIn, S_migrationTotalCompanyIn>>,
      <<L_migrationTotalCompanyOut, S_migrationTotalCompanyOut>>>>

\* Lines 341-356: migration_stat.get(key, 0)
MigrationSheet(stats) ==
    LET migration_stat == stats.migration_region_statistic
    IN  IF ~Truthy(migration_stat) THEN NoSheets
        ELSE IF ~IsDict(migration_stat) THEN Raised
        ELSE SheetOf(Sheet_migration,
                     <<Labels(<<H_indicator, H_value>>)>> \o
                     [n \in 1..Len(MigrationRows) |->
                         <<JStr(MigrationRows[n][1]),
                           GetOr(migration_stat, MigrationRows[n][2], JInt(0))>>])

\* x.get(key) if x.get(key) is not None else 0
NoneToZero(obj, key) == IF Get(obj, key) # JNull THEN Get(obj, key) ELSE JInt(0)

\* The labels and keys of lines 383-401
OpenCloseRows ==
    <<<<L_companyOpen, S_companyOpen>>,
      <<L_companyCurrentClose, S_companyCurrentClose>>,
      <<L_companyPercentLive, S_companyPercentLive>>,
      <<L_fopOpen, S_fopOpen>>,
      <<L_fopCurrentClose, S_fopCurrentClose>>,
      <<L_fopPercentLive, S_fopPercentLive>>,
      <<L_totalOpen, S_totalOpen>>,
      <<L_totalCurrentClose, S_totalCurrentClose>>,
      <<L_totalPercentLive, S_totalPercentLive>>>>

\* The labels and keys of lines 427-433
VehicleRows ==
    <<<<L_headerCompanyWithCount, S_headerCompanyWithCount>>,
      <<L_headerCompanyWithoutCount, S_headerCompanyWithoutCount>>,
      <<L_headerVehicleCount, S_headerVehicleCount>>>>

\* Lines 371-401 and 416-433: a label and a value per row, None shown as 0
IndicatorSheet(stat, title, rows) ==
    IF ~Truthy(stat) THEN NoSheets
    ELSE IF ~IsDict(stat) THEN Raised
    ELSE SheetOf(title,
                 <<Labels(<<H_indicator, H_value>>)>> \o
                 [n \in 1..Len(rows) |->
                     <<JStr(rows[n][1]), NoneToZero(stat, rows[n][2])>>])

OpenCloseSheet(stats) ==
    IndicatorSheet(stats.open_close_statistic, Sheet_open_close, OpenCloseRows)

VehicleSheet(stats) ==
    IndicatorSheet(stats.vehicle_statistic, Sheet_vehicle, VehicleRows)

\* x or 0
OrZero(x) == IF Truthy(x) THEN x ELSE JInt(0)

\* Lines 448-477 and 492-520: the totalStat row, when there is one, then a row
\* per item of `statistic`
CadastrSheet(cadastr_stat, key, title, header) ==
    IF ~IsDict(cadastr_stat) THEN Raised
    ELSE LET by == GetOr(cadastr_stat, key, JObj(<<>>))
         IN  IF ~Truthy(by) THEN NoSheets
             ELSE IF ~IsDict(by) THEN Raised
             ELSE LET total == GetOr(by, S_totalStat, JObj(<<>>))
                      stat_list == GetOr(by, S_statistic, JArr(<<>>))
                      items == IterItems(stat_list)
                  IN  IF Truthy(total) /\ ~IsDict(total) THEN Raised
                      ELSE IF ~Iterable(stat_list) THEN Raised
                      ELSE IF \E n \in 1..Len(items) : ~IsDict(items[n]) THEN Raised
                      ELSE SheetOf(title,
                              <<Labels(header)>> \o
                              (IF Truthy(total)
                               THEN <<<<GetOr(total, S_name, JStr(L_total)),
                                        GetOr(total, S_count, JInt(0)),
                                        GetOr(total, S_area, JInt(0)),
                                        GetOr(total, S_ngoPrice, JInt(0))>>>>
                               ELSE <<>>) \o
                              [n \in 1..Len(items) |->
                                  <<GetOr(items[n], S_name, JStr(<<>>)),
                                    GetOr(items[n], S_count, JInt(0)),
                                    GetOr(items[n], S_area, JInt(0)),
                                    OrZero(GetOr(items[n], S_ngoPrice, JInt(0)))>>])

OwnerFormSheet(stats) ==
    CadastrSheet(stats.cadastr_estate_statistic, S_byOwnerForm, Sheet_cadastr,
                 <<H_owner_form, H_count, H_area, H_ngo_price>>)

PurposeSheet(stats) ==
    CadastrSheet(stats.cadastr_estate_statistic, S_byPurpose, Sheet_purpose,
                 <<H_purpose, H_count, H_area, H_ngo_price>>)

\* The characters of the keys that get sorted, by ascending code point
CodePointOrder ==
    <<"0", "1", "2", "3", "4", "5", "6", "7", "8", "9",
      "A", "B", "C", "D", "E", "F", "G", "H", "I", "J", "K", "L", "M", "N",
      "O", "P", "Q", "R", "S", "T", "U", "V", "W", "X", "Y", "Z", "_",
      "a", "b", "c", "d", "e", "f", "g", "h", "i", "j", "k", "l", "m", "n",
      "o", "p", "q", "r", "s", "t", "u", "v", "w", "x", "y", "z">>
CodePointRank(c) == CHOOSE n \in 1..Len(CodePointOrder) : CodePointOrder[n] = c

\* a < b for Python strings
RECURSIVE StrLess(_, _)
StrLess(a, b) ==
    IF b = <<>> THEN FALSE
    ELSE IF a = <<>> THEN TRUE
    ELSE IF Head(a) = Head(b) THEN StrLess(Tail(a), Tail(b))
    ELSE CodePointRank(Head(a)) < CodePointRank(Head(b))

\* sorted(keys) for a set of strings
RECURSIVE Sorted(_)
Sorted(keys) ==
    IF keys = {} THEN <<>>
    ELSE LET least == CHOOSE k \in keys : \A other \in keys \ {k} : StrLess(k, other)
         IN  <<least>> \o Sorted(keys \ {least})

\* set(d.keys())
Keys(d) == {d.kv[n].k : n \in 1..Len(d.kv)}

\* Lines 535-556: a row per status key of landStat or objectStat, sorted
StatusSheet(stats) ==
    LET status_stats == stats.status_stats
    IN  IF ~Truthy(status_stats) THEN NoSheets
        ELSE IF ~IsDict(status_stats) THEN Raised
        ELSE LET land_stat == GetOr(status_stats, S_landStat, JObj(<<>>))
                 object_stat == GetOr(status_stats, S_objectStat, JObj(<<>>))
             IN  IF ~IsDict(land_stat) \/ ~IsDict(object_stat) THEN Raised
                 ELSE LET all_keys == Sorted(Keys(land_stat) \cup Keys(object_stat))
                      IN  SheetOf(Sheet_status,
                                  <<Labels(<<H_status, H_land_plots, H_objects>>)>> \o
                                  [n \in 1..Len(all_keys) |->
                                      <<JStr(all_keys[n]),
                                        GetOr(land_stat, all_keys[n], JInt(0)),
                                        GetOr(object_stat, all_keys[n], JInt(0))>>])

\* The blocks in the order of the source
Blocks(stats) ==
    <<KvedSheet(stats), IntelSheet(stats), MigrationSheet(stats), OpenCloseSheet(stats),
      VehicleSheet(stats), OwnerFormSheet(stats), PurposeSheet(stats),
      StatusSheet(stats)>>

\* The sheets of several blocks, one after another
RECURSIVE SheetsOf(_)
SheetsOf(blocks) ==
    IF blocks = <<>> THEN <<>> ELSE Head(blocks).sheets \o SheetsOf(Tail(blocks))

\* Lines 259-571 up to wb.save: the sheets of the workbook, or an exception.
\* After wb.remove(wb["Sheet"]) a workbook no block added a sheet to has none,
\* and wb.save raises IndexError for a workbook without a visible sheet.
Workbook(stats) ==
    LET blocks == Blocks(stats)
    IN  IF \E n \in 1..Len(blocks) : blocks[n].raised THEN Raised
        ELSE IF SheetsOf(blocks) = <<>> THEN Raised
        ELSE [raised |-> FALSE, sheets |-> SheetsOf(blocks)]

----------------------------------------------------------------------------
\* SWOTProcessor.process_swot_file with load_swot_file,
\* save_extracted_statistics and save_statistics_to_excel, and
\* HromadaEconomyAPI.save_swot_to_file.

S_status ==
    <<"s", "t", "a", "t", "u", "s">>   \* status
S_success ==
    <<"s", "u", "c", "c", "e", "s", "s">>   \* success
S_errorMessage ==
    <<"e", "r", "r", "o", "r", "M", "e", "s", "s", "a", "g", "e">>   \* errorMessage

\* str(filepath) of the two files of process_swot_file and of the file of
\* save_swot_to_file: the names differ in the time of day, the suffixes are these
JsonFilepath == JStr(<<".", "j", "s", "o", "n">>)
ExcelFilepath == JStr(<<".", "x", "l", "s", "x">>)

\* Lines 34-46: the decoded document, or None when the file is missing, cannot
\* be read or does not hold JSON
load_swot_file(f) == IF f.kind = "json" THEN f.value ELSE JNull

\* LoadFailed without the test: process_swot_file goes on whatever was loaded
LoadFailedNever(loaded) == FALSE

\* Line 596: if not swot_data
LoadFailed(loaded) == ~Truthy(loaded)

\* Lines 604-612
HasData(stats) ==
    \/ Truthy(stats.kved_statistic)
    \/ Truthy(stats.intelligence_statistic)
    \/ Truthy(stats.migration_region_statistic)
    \/ Truthy(stats.cadastr_estate_statistic)
    \/ Truthy(stats.status_stats)
    \/ Truthy(stats.open_close_statistic)
    \/ Truthy(stats.vehicle_statistic)

\* ProcessSwotFileResult with the two files the other way round
ProcessSwotFileResultExcelFirst(json, excel) == IF Truthy(excel) THEN excel ELSE json

\* Line 632: json_file if json_file else excel_file
ProcessSwotFileResult(json, excel) == IF Truthy(json) THEN json ELSE excel

\* StructuredData leaving out the categories nothing was found for
StructuredDataOmittingEmpty(stats) ==
    [written |-> TRUE,
     statistics |-> [k \in {name \in DOMAIN stats : Truthy(stats[name])} |-> stats[k]]]

\* Lines 218-231: the document written, less its metadata block, which holds
\* the time of writing and the path of the input file
StructuredData(stats) == [written |-> TRUE, statistics |-> stats]

\* Line 595
LoadSwotFile ==
    /\ entry = "process_swot_file"
    /\ pc = "file_start"
    /\ swot_data' = load_swot_file(file)
    /\ invoked' = Append(invoked, "load_swot_file")
    /\ pc' = "file_loaded"
    /\ UNCHANGED <<data, stack, statistics, visited, accumulated, last, found, extracted,
                   entry, calls, first_record, file, openpyxl_available, json_file,
                   excel_file, artifacts, returned, client>>

\* Lines 596-601: return None, or call extract_statistics
ProcessSwotFile ==
    /\ entry = "process_swot_file"
    /\ pc = "file_loaded"
    /\ IF LoadFailed(swot_data)
       THEN /\ returned' = JNull
            /\ pc' = "file_done"
            /\ UNCHANGED invoked
       ELSE /\ invoked' = Append(invoked, "extract_statistics")
            /\ pc' = "extract_start"
            /\ UNCHANGED returned
    /\ UNCHANGED <<swot_data, data, stack, statistics, visited, accumulated, last, found,
                   extracted, entry, calls, first_record, file, openpyxl_available,
                   json_file, excel_file, artifacts, client>>

\* A save_extracted_statistics that empties the record it was handed
SaveExtractedStatisticsConsuming ==
    /\ entry = "process_swot_file"
    /\ pc = "extract_done"
    /\ invoked' = Append(invoked, "save_extracted_statistics")
    /\ \E written \in BOOLEAN :
          IF written
          THEN /\ artifacts' = [artifacts EXCEPT !.json = StructuredData(extracted)]
               /\ json_file' = JsonFilepath
          ELSE /\ json_file' = JNull
               /\ UNCHANGED artifacts
    /\ extracted' = InitExtracted
    /\ pc' = "file_json_saved"
    /\ UNCHANGED <<swot_data, data, stack, statistics, visited, accumulated, last, found,
                   entry, calls, first_record, file, openpyxl_available,
                   excel_file, returned, client>>

\* Lines 604-627 with save_extracted_statistics (206-238): the warning of line
\* 615 is printed and nothing else depends on has_data; the file is written
\* unless making the directory or writing fails, which returns None
SaveExtractedStatistics ==
    /\ entry = "process_swot_file"
    /\ pc = "extract_done"
    /\ invoked' = Append(invoked, "save_extracted_statistics")
    /\ \E written \in BOOLEAN :
          IF written
          THEN /\ artifacts' = [artifacts EXCEPT !.json = StructuredData(extracted)]
               /\ json_file' = JsonFilepath
          ELSE /\ json_file' = JNull
               /\ UNCHANGED artifacts
    /\ pc' = "file_json_saved"
    /\ UNCHANGED <<swot_data, data, stack, statistics, visited, accumulated, last, found,
                   extracted, entry, calls, first_record, file, openpyxl_available,
                   excel_file, returned, client>>

\* save_statistics_to_excel without the test of lines 254-257
SaveStatisticsToExcelUnguarded ==
    /\ entry = "process_swot_file"
    /\ pc = "file_json_saved"
    /\ invoked' = Append(invoked, "save_statistics_to_excel")
    /\ \E written \in BOOLEAN :
          IF written /\ ~Workbook(extracted).raised
          THEN /\ artifacts' = [artifacts EXCEPT
                                   !.excel = [written |-> TRUE,
                                              sheets |-> Workbook(extracted).sheets]]
               /\ excel_file' = ExcelFilepath
          ELSE /\ excel_file' = JNull
               /\ UNCHANGED artifacts
    /\ pc' = "file_excel_saved"
    /\ UNCHANGED <<swot_data, data, stack, statistics, visited, accumulated, last, found,
                   extracted, entry, calls, first_record, file, openpyxl_available,
                   json_file, returned, client>>

\* Line 630 with save_statistics_to_excel (254-577): None without openpyxl,
\* None when building the workbook raises or making the directory or saving
\* fails, else the file is written
SaveStatisticsToExcel ==
    /\ entry = "process_swot_file"
    /\ pc = "file_json_saved"
    /\ invoked' = Append(invoked, "save_statistics_to_excel")
    /\ IF ~openpyxl_available
       THEN excel_file' = JNull /\ UNCHANGED artifacts
       ELSE \E written \in BOOLEAN :
               IF written /\ ~Workbook(extracted).raised
               THEN /\ artifacts' = [artifacts EXCEPT
                                        !.excel = [written |-> TRUE,
                                                   sheets |-> Workbook(extracted).sheets]]
                    /\ excel_file' = ExcelFilepath
               ELSE /\ excel_file' = JNull
                    /\ UNCHANGED artifacts
    /\ pc' = "file_excel_saved"
    /\ UNCHANGED <<swot_data, data, stack, statistics, visited, accumulated, last, found,
                   extracted, entry, calls, first_record, file, openpyxl_available,
                   json_file, returned, client>>

\* A return of the JSON save's result alone
ProcessSwotFileReturnJsonOnly ==
    /\ entry = "process_swot_file"
    /\ pc = "file_excel_saved"
    /\ returned' = json_file
    /\ pc' = "file_done"
    /\ UNCHANGED <<swot_data, data, stack, statistics, visited, accumulated, last, found,
                   extracted, entry, calls, first_record, file, openpyxl_available,
                   json_file, excel_file, artifacts, invoked, client>>

\* Line 632
ProcessSwotFileReturn ==
    /\ entry = "process_swot_file"
    /\ pc = "file_excel_saved"
    /\ returned' = ProcessSwotFileResult(json_file, excel_file)
    /\ pc' = "file_done"
    /\ UNCHANGED <<swot_data, data, stack, statistics, visited, accumulated, last, found,
                   extracted, entry, calls, first_record, file, openpyxl_available,
                   json_file, excel_file, artifacts, invoked, client>>

\* hromada_economy.py lines 445-460: None for no data or when the directory
\* cannot be made, else the call of process_swot_statistics
SaveSwotToFile ==
    /\ entry = "save_swot_to_file"
    /\ pc = "swot_start"
    /\ IF ~Truthy(swot_data)
       THEN /\ returned' = JNull
            /\ pc' = "swot_done"
            /\ UNCHANGED invoked
       ELSE \E made \in BOOLEAN :
               IF made
               THEN /\ invoked' = Append(invoked, "process_swot_statistics")
                    /\ pc' = "stats_start"
                    /\ UNCHANGED returned
               ELSE /\ returned' = JNull
                    /\ pc' = "swot_done"
                    /\ UNCHANGED invoked
    /\ UNCHANGED <<swot_data, data, stack, statistics, visited, accumulated, last, found,
                   extracted, entry, calls, first_record, file, openpyxl_available,
                   json_file, excel_file, artifacts, client>>

\* hromada_economy.py lines 462-487: the structured document is written, or
\* None when writing fails
SaveSwotToFileWrite ==
    /\ entry = "save_swot_to_file"
    /\ pc = "stats_done"
    /\ \E written \in BOOLEAN :
          IF written
          THEN /\ artifacts' =
                     [artifacts EXCEPT
                         !.json = [written |-> TRUE,
                                   statistics |-> statistics,
                                   data |-> Get(swot_data, S_data),
                                   error_message |-> Get(swot_data, S_errorMessage),
                                   status |-> Get(swot_data, S_status),
                                   success |-> GetOr(swot_data, S_success, JBool(FALSE)),
                                   raw_response |-> Get(swot_data, S_raw_response)]]
               /\ returned' = JsonFilepath
          ELSE /\ returned' = JNull
               /\ UNCHANGED artifacts
    /\ pc' = "swot_done"
    /\ UNCHANGED <<swot_data, data, stack, statistics, visited, accumulated, last, found,
                   extracted, entry, calls, first_record, file, openpyxl_available,
                   json_file, excel_file, invoked, client>>

\* hromada_economy.py lines 489-491: an exception of process_swot_statistics
\* is caught
SaveSwotToFileExcept ==
    /\ entry = "save_swot_to_file"
    /\ pc = "stats_raised"
    /\ returned' = JNull
    /\ pc' = "swot_done"
    /\ UNCHANGED <<swot_data, data, stack, statistics, visited, accumulated, last, found,
                   extracted, entry, calls, first_record, file, openpyxl_available,
                   json_file, excel_file, artifacts, invoked, client>>

\* kvedStatistic as the report holds it, with a missing and a null field
SubKved ==
    JArr(<<Obj3(S_kvedId, JStr(S_1), S_name, JStr(S_ab), S_qntRecord, JInt(2)),
           Obj2(S_name, JNull, S_a, JInt(1))>>)

\* intelligenceStatistic as the report holds it
SubIntel == JArr(<<Obj2(S_state, JStr(S_ab), S_qntRecord, JInt(1))>>)

\* A list whose item holds a list where a cell value is expected
SubKvedNested == JArr(<<Obj1(S_name, JArr(<<JInt(1)>>))>>)

\* statusStats with keys in both, in one and out of order
SubStatus ==
    Obj2(S_landStat, Obj2(S_b, JInt(1), S_a, JInt(2)),
         S_objectStat, Obj2(S_x, JInt(1), S_a, JNull))

\* statusStats whose landStat is null
SubStatusNull == Obj2(S_landStat, JNull, S_objectStat, Obj1(S_a, JInt(1)))

\* cadastrEstateStatistic with both breakdowns
SubCadastrForms ==
    Obj3(S_byOwnerForm,
         Obj2(S_totalStat, Obj3(S_count, JInt(2), S_area, JFloat(3), S_ngoPrice, JNull),
              S_statistic,
              JArr(<<Obj3(S_name, JStr(S_a), S_count, JInt(1), S_ngoPrice, JNull),
                     Obj2(S_name, JStr(S_b), S_ngoPrice, JInt(0))>>)),
         S_byPurpose,
         Obj2(S_cadastrNumbers, JArr(<<JStr(S_1)>>),
              S_statistic, JArr(<<Obj2(S_name, JStr(S_ab), S_area, JInt(1))>>)),
         S_cadastrNumbers, JArr(<<JStr(S_1)>>))

\* cadastrEstateStatistic whose byOwnerForm has a null statistic
SubCadastrNullList == Obj1(S_byOwnerForm, Obj1(S_statistic, JNull))

\* Retained fields present and all null
SubVehicleNulls ==
    Obj3(S_headerCompanyWithCount, JNull, S_headerCompanyWithoutCount, JNull,
         S_headerVehicleCount, JNull)

FileSubValues ==
    SubValues \cup {SubKved, SubIntel, SubKvedNested, SubStatus, SubStatusNull,
                    SubCadastrForms, SubCadastrNullList, SubVehicleNulls}

\* A report with every named substructure
DocReport ==
    JObj(<<KV(S_kvedStatistic, SubKved),
           KV(S_a, Obj2(S_intelligenceStatistic, SubIntel, S_statusStats, SubStatus)),
           KV(S_migrationRegionStatistic, SubMigration),
           KV(S_cadastrEstateStatistic, SubCadastrForms),
           KV(S_openCloseStatistic, SubOpenClose),
           KV(S_vehicleStatistic, SubVehicle)>>)

\* Reports with some of the named substructures
DocKvedAndStatus == Obj2(S_statusStats, SubStatus, S_kvedStatistic, SubKved)
DocVehicleAndMigration ==
    Obj2(S_vehicleStatistic, SubVehicleNulls, S_migrationRegionStatistic, SubListOnly)

\* What the input file may hold: reports under data or raw_response, documents
\* without any category, and JSON texts that are no object
FileDocs ==
    {InData(Obj2(S_a, JInt(1), k, v)) : k \in NamedKeys, v \in FileSubValues}
    \cup {InData(DocReport), InRawData(DocReport), InRawDataLower(DocReport),
          InData(DocKvedAndStatus), InData(DocVehicleAndMigration),
          InData(DocAllNamed), DocReport,
          JObj(<<>>), InData(JObj(<<>>)), InData(Obj1(S_x, JInt(1))),
          Obj1(S_x, JInt(1)), InData(JArr(<<JInt(1)>>)),
          JNull, JInt(0), JInt(1), JStr(S_ab), JBool(TRUE), JArr(<<>>),
          JArr(<<DocReport>>), Obj1(S_raw_response, JArr(<<>>))}

FileInputs ==
    {[kind |-> "absent"], [kind |-> "unreadable"], [kind |-> "invalid_json"]}
    \cup {[kind |-> "json", value |-> d] : d \in FileDocs}

\* The dicts _handle_swot_response returns for status 200 and for 403 or 400
Response200(d) ==
    JObj(<<KV(S_status, JInt(200)), KV(S_data, d), KV(S_errorMessage, JNull),
           KV(S_success, JBool(d # JNull)), KV(S_raw_response, Obj1(S_Data, d))>>)
ResponseError ==
    JObj(<<KV(S_status, JInt(403)), KV(S_data, JNull), KV(S_errorMessage, JStr(S_ab)),
           KV(S_success, JBool(FALSE))>>)

SwotInputs ==
    {Response200(Obj1(k, Obj1(f, v))) :
        k \in PathKeys, f \in {S_count, S_area, S_list}, v \in FieldValues}
    \cup {Response200(doc) : doc \in StatisticsDocs}
    \cup {Response200(JNull), Response200(JObj(<<>>)), ResponseError, JObj(<<>>),
          InData(DocExample), JArr(<<DocExample>>)}

InitProcessSwotFile ==
    /\ entry = "process_swot_file"
    /\ file \in FileInputs
    /\ openpyxl_available \in BOOLEAN
    /\ swot_data = Unset
    /\ pc = "file_start"
    /\ InitCall
    /\ InitNoClient

InitSaveSwotToFile ==
    /\ entry = "save_swot_to_file"
    /\ file = NoFile
    /\ openpyxl_available = TRUE
    /\ swot_data \in SwotInputs
    /\ pc = "swot_start"
    /\ InitCall
    /\ InitNoClient

InitOutput == InitProcessSwotFile \/ InitSaveSwotToFile

NextOutput ==
    \/ LoadSwotFile
    \/ ProcessSwotFile
    \/ ExtractStatistics
    \/ ExtractKved
    \/ ExtractIntelligence
    \/ ExtractMigration
    \/ ExtractCadastr
    \/ ExtractStatus
    \/ ExtractOpenClose
    \/ ExtractVehicle
    \/ SaveExtractedStatistics
    \/ SaveStatisticsToExcel
    \/ ProcessSwotFileReturn
    \/ SaveSwotToFile
    \/ ProcessSwotStatistics
    \/ find_statistics
    \/ ProcessSwotStatisticsReturn
    \/ SaveSwotToFileWrite
    \/ SaveSwotToFileExcept

SpecOutput == InitOutput /\ [][NextOutput]_vars

----------------------------------------------------------------------------
\* Properties of process_swot_file and save_swot_to_file, checked under
\* SpecOutput.

\* The input file holds a JSON document in which no object carries a named
\* substructure
NoCategoryPresent ==
    /\ entry = "process_swot_file"
    /\ file.kind = "json"
    /\ \A k \in NamedKeys : ~Occurs(file.value, k)

\* C15 (as claimed): for a valid document with no category anywhere, the empty
\* top-level object included, extract_statistics returns the record with every
\* category empty, and process_swot_file goes on to save it: unless writing
\* the file fails, the JSON artifact holds that record and its path is returned.
C15_NoCategoryIsSuccess ==
    NoCategoryPresent
        => /\ pc # "extract_raised"
           /\ pc = "file_done"
                 => /\ "save_extracted_statistics" \in {invoked[n] : n \in 1..Len(invoked)}
                    /\ json_file # JNull
                          => /\ returned = JsonFilepath
                             /\ artifacts.json.written
                             /\ artifacts.json.statistics = InitExtracted

\* Beside C15: for a document that is an object with at least one entry and no
\* category anywhere, a process_swot_file that returns has saved the empty
\* record and returns the path of the JSON file unless writing it failed.
NonEmptyNoCategoryIsSuccess ==
    NoCategoryPresent /\ IsDict(file.value) /\ file.value.kv # <<>>
        => /\ pc = "file_done"
                 => /\ "save_extracted_statistics" \in {invoked[n] : n \in 1..Len(invoked)}
                    /\ json_file # JNull
                          => /\ returned = JsonFilepath
                             /\ artifacts.json.written
                             /\ artifacts.json.statistics = InitExtracted

\* Such a document has been saved
NoCategorySaved ==
    /\ NoCategoryPresent /\ IsDict(file.value) /\ file.value.kv # <<>>
    /\ pc = "file_done"
    /\ returned = JsonFilepath

\* A call of process_swot_file has ended by returning
Returned == entry = "process_swot_file" /\ pc = "file_done"

\* C16 (as claimed): a call that has returned has written both artifacts, the
\* JSON artifact only, or none, never the tabular artifact alone; None is
\* returned exactly when none was written, and the value returned after both
\* were written is not the value returned after the JSON artifact alone.
C16_ThreeOutcomesTold ==
    Returned
        => /\ ~(artifacts.excel.written /\ ~artifacts.json.written)
           /\ returned = JNull <=> ~artifacts.json.written /\ ~artifacts.excel.written
           /\ artifacts.json.written /\ artifacts.excel.written
                 => returned # ProcessSwotFileResult(json_file, JNull)

\* C16 (amended): a call that has returned has written both artifacts, the
\* JSON artifact only, the tabular artifact only, or none; it returns the path
\* of the JSON artifact whenever that was written, else the path of the
\* tabular artifact when that was written, else None.  A call that an
\* exception of extract_statistics ends returns nothing and has written nothing.
C16_OutcomesAndReturnedValue ==
    entry = "process_swot_file"
        => /\ pc = "file_done"
                 => returned = IF artifacts.json.written THEN JsonFilepath
                               ELSE IF artifacts.excel.written THEN ExcelFilepath
                               ELSE JNull
           /\ pc = "extract_raised"
                 => /\ returned = Unset
                    /\ ~artifacts.json.written /\ ~artifacts.excel.written

\* Both artifacts were written and the value returned is the one returned
\* after the JSON artifact alone
C16_Witness ==
    /\ Returned
    /\ artifacts.json.written /\ artifacts.excel.written
    /\ returned = ProcessSwotFileResult(json_file, JNull)

\* The tabular artifact was written and the JSON artifact was not
TabularOnly ==
    /\ Returned
    /\ artifacts.excel.written /\ ~artifacts.json.written
    /\ returned = ExcelFilepath

----------------------------------------------------------------------------
\* Exceptions of the two extraction functions, checked under SpecTwice.

\* C17 (as claimed): whatever decoded JSON value process_swot_statistics or
\* extract_statistics is handed, no exception escapes the call, and a call
\* that does not return a record has left every accumulator as it was created.
C17_NoExceptionEscapes ==
    /\ pc # "stats_raised" /\ pc # "extract_raised"
    /\ pc = "stats_raised" => statistics = InitStatistics
    /\ pc = "extract_raised" => extracted = InitExtracted

\* An exception has escaped process_swot_statistics after a counter was raised
RaisedAfterCounting ==
    /\ pc = "stats_raised"
    /\ statistics.fop_companies.fop_count > 0

\* An exception has escaped extract_statistics after an entry was filled
RaisedAfterExtracting ==
    /\ pc = "extract_raised"
    /\ extracted # InitExtracted

----------------------------------------------------------------------------
\* Failed loads, checked under SpecOutput.

\* The input file is missing, cannot be read or does not hold JSON
LoadFails ==
    entry = "process_swot_file" /\ file.kind \in {"absent", "unreadable", "invalid_json"}

\* C18: when the input file is missing, unreadable or not JSON,
\* process_swot_file invokes nothing but load_swot_file, writes no artifact,
\* and returns None.
C18_FailedLoadStopsTheCall ==
    LoadFails
        => /\ \A n \in 1..Len(invoked) : invoked[n] = "load_swot_file"
           /\ ~artifacts.json.written /\ ~artifacts.excel.written
           /\ pc \in {"file_start", "file_loaded", "file_done"}
           /\ pc = "file_done" => returned = JNull

\* A call on a file that does not hold JSON has returned
C18_Witness ==
    /\ LoadFails /\ file.kind = "invalid_json"
    /\ pc = "file_done"
    /\ invoked = <<"load_swot_file">>
    /\ returned = JNull

----------------------------------------------------------------------------
\* The statistics block of the JSON artifacts, checked under SpecOutput.

\* The entries that hold each of the ten categories, in either record
CategoryEntries ==
    {{"fop_companies"}, {"kved", "kved_statistic"}, {"land_plots"}, {"objects"},
     {"public_procurements"}, {"migration_region_statistic"},
     {"cadastr_estate_statistic"}, {"status_stats"}, {"open_close_statistic"},
     {"vehicle_statistic"}}

ExtractedEntries ==
    {<<"kved_statistic", S_kvedStatistic>>,
     <<"intelligence_statistic", S_intelligenceStatistic>>,
     <<"migration_region_statistic", S_migrationRegionStatistic>>,
     <<"cadastr_estate_statistic", S_cadastrEstateStatistic>>,
     <<"status_stats", S_statusStats>>,
     <<"open_close_statistic", S_openCloseStatistic>>,
     <<"vehicle_statistic", S_vehicleStatistic>>}

\* Some object node of the data payload has a path that passes matches
SomeNodeMatches(matches(_)) ==
    LET nodes == NodesWithPaths(data, <<>>)
    IN  \E n \in 1..Len(nodes) : IsDict(nodes[n].obj) /\ matches(Lower(nodes[n].path))

SwotBlockWritten ==
    /\ entry = "save_swot_to_file" /\ artifacts.json.written
    /\ artifacts.json.statistics.land_plots.count > 0
    /\ artifacts.json.statistics.fop_companies = InitStatistics.fop_companies

----------------------------------------------------------------------------
\* The sheets of the workbook, checked under SpecOutput.

\* A list or an object holds at least one value that is not null
HasNonNullValue(v) ==
    IF IsDict(v) THEN \E n \in 1..Len(v.kv) : v.kv[n].v # JNull
    ELSE IF IsList(v) THEN \E n \in 1..Len(v.el) : v.el[n] # JNull
    ELSE v # JNull

\* The entries of the record and the sheets that show each
CategorySheets ==
    {<<"kved_statistic", {Sheet_kved}>>, <<"intelligence_statistic", {Sheet_intel}>>,
     <<"migration_region_statistic", {Sheet_migration}>>,
     <<"open_close_statistic", {Sheet_open_close}>>,
     <<"vehicle_statistic", {Sheet_vehicle}>>,
     <<"cadastr_estate_statistic", {Sheet_cadastr, Sheet_purpose}>>,
     <<"status_stats", {Sheet_status}>>}

\* The order the source creates the sheets in
SheetOrder ==
    <<Sheet_kved, Sheet_intel, Sheet_migration, Sheet_open_close, Sheet_vehicle,
      Sheet_cadastr, Sheet_purpose, Sheet_status>>

\* The titles of the sheets of the workbook that was written, in their order
SheetTitles ==
    [n \in 1..Len(artifacts.excel.sheets) |-> artifacts.excel.sheets[n].title]

\* The titles are pairwise distinct and follow SheetOrder
InSheetOrder(titles) ==
    \A m, n \in 1..Len(titles) :
        m < n => \E i, j \in 1..Len(SheetOrder) :
                    i < j /\ SheetOrder[i] = titles[m] /\ SheetOrder[j] = titles[n]

\* C20 (as claimed): a workbook that was written has a sheet for a category
\* exactly when the category's entry in the record holds at least one value
\* that is not null, so none for a category whose retained fields are all
\* null, and its sheets are in the fixed order.
C20_SheetIffNonNullValue ==
    artifacts.excel.written
        => /\ \A c \in CategorySheets :
                 (\E n \in 1..Len(SheetTitles) : SheetTitles[n] \in c[2])
                    <=> HasNonNullValue(extracted[c[1]])
           /\ InSheetOrder(SheetTitles)

\* Beside C20: a workbook that was written has a sheet for kved, intelligence,
\* migration, open/close, vehicle and status exactly when the entry is taken
\* for true by Python (a list or an object that is not empty, whatever it
\* holds), and a sheet for each of byOwnerForm and byPurpose of the cadastr
\* entry exactly when that is; the sheets are in the fixed order.
SheetIffTruthy ==
    artifacts.excel.written
        => /\ \A c \in CategorySheets \ {<<"cadastr_estate_statistic",
                                           {Sheet_cadastr, Sheet_purpose}>>} :
                 (\E n \in 1..Len(SheetTitles) : SheetTitles[n] \in c[2])
                    <=> Truthy(extracted[c[1]])
           /\ (\E n \in 1..Len(SheetTitles) : SheetTitles[n] = Sheet_cadastr)
                 <=> Truthy(Get(extracted.cadastr_estate_statistic, S_byOwnerForm))
           /\ (\E n \in 1..Len(SheetTitles) : SheetTitles[n] = Sheet_purpose)
                 <=> Truthy(Get(extracted.cadastr_estate_statistic, S_byPurpose))
           /\ InSheetOrder(SheetTitles)

\* A workbook with a sheet for a category all of whose retained fields are null
AllNullCategoryHasSheet ==
    /\ artifacts.excel.written
    /\ \E n \in 1..Len(SheetTitles) : SheetTitles[n] = Sheet_vehicle
    /\ ~HasNonNullValue(extracted.vehicle_statistic)

\* A workbook with all eight sheets
AllSheetsWritten ==
    /\ artifacts.excel.written
    /\ SheetTitles = SheetOrder

----------------------------------------------------------------------------
\* The cells of the indicator sheets, checked under SpecOutput.

\* The sheets of the workbook that was written with the given title
SheetsTitled(title) ==
    {artifacts.excel.sheets[n].rows : n \in {m \in 1..Len(artifacts.excel.sheets) :
                                               artifacts.excel.sheets[m].title = title}}

\* In every sheet with the title, the value cell of each row whose field is
\* null in the entry holds shown
NullShownAs(entry_name, title, rows, shown) ==
    \A sheet \in SheetsTitled(title) :
        \A n \in 1..Len(rows) :
            Get(extracted[entry_name], rows[n][2]) = JNull => sheet[n + 1][2] = shown

\* Some field of the rows is null in the entry, and the sheet was written
NullFieldInSheet(entry_name, title, rows) ==
    /\ artifacts.excel.written
    /\ SheetsTitled(title) # {}
    /\ \E n \in 1..Len(rows) : Get(extracted[entry_name], rows[n][2]) = JNull

\* C21 (as claimed): in a workbook that was written every null field of the
\* migration, open/close and vehicle entries is shown as 0 in its row, and
\* the JSON artifact holds the record with those fields null.
C21_NullRenderedAsZero ==
    /\ artifacts.excel.written
          => /\ NullShownAs("migration_region_statistic", Sheet_migration,
                            MigrationRows, JInt(0))
             /\ NullShownAs("open_close_statistic", Sheet_open_close,
                            OpenCloseRows, JInt(0))
             /\ NullShownAs("vehicle_statistic", Sheet_vehicle, VehicleRows, JInt(0))
    /\ (entry = "process_swot_file" /\ artifacts.json.written)
          => artifacts.json.statistics = extracted

\* Beside C21: the open/close and vehicle rows show a null field as 0, the
\* migration rows show it as an empty cell (None), and the JSON artifact
\* holds the record as it is.
NullRenderedAsZeroButMigration ==
    /\ artifacts.excel.written
          => /\ NullShownAs("migration_region_statistic", Sheet_migration,
                            MigrationRows, JNull)
             /\ NullShownAs("open_close_statistic", Sheet_open_close,
                            OpenCloseRows, JInt(0))
             /\ NullShownAs("vehicle_statistic", Sheet_vehicle, VehicleRows, JInt(0))
    /\ (entry = "process_swot_file" /\ artifacts.json.written)
          => artifacts.json.statistics = extracted

\* A workbook with a null field in each of the three indicator sheets, beside
\* the JSON artifact
NullFieldsInEverySheet ==
    /\ NullFieldInSheet("migration_region_statistic", Sheet_migration, MigrationRows)
    /\ NullFieldInSheet("open_close_statistic", Sheet_open_close, OpenCloseRows)
    /\ NullFieldInSheet("vehicle_statistic", Sheet_vehicle, VehicleRows)
    /\ artifacts.json.written

----------------------------------------------------------------------------
\* The run without openpyxl, checked under SpecOutput.

\* save_statistics_to_excel has been called and has come back without openpyxl
ExcelSaveDoneUnavailable ==
    /\ entry = "process_swot_file"
    /\ ~openpyxl_available
    /\ pc \in {"file_excel_saved", "file_done"}
    /\ Len(invoked) > 0 /\ invoked[Len(invoked)] = "save_statistics_to_excel"

\* C22: without openpyxl, save_statistics_to_excel comes back with None and no
\* workbook is written; the JSON save has run before it, and the call returns
\* what the JSON save returned, the path of the JSON artifact that was written.
C22_JsonOnlyWithoutOpenpyxl ==
    ExcelSaveDoneUnavailable
        => /\ excel_file = JNull
           /\ ~artifacts.excel.written
           /\ \E n \in 1..Len(invoked) : invoked[n] = "save_extracted_statistics"
           /\ artifacts.json.written <=> json_file = JsonFilepath
           /\ pc = "file_done"
                 => /\ returned = json_file
                    /\ artifacts.json.written => returned = JsonFilepath

\* A call without openpyxl that wrote the JSON artifact alone and returned its
\* path, on a record the workbook could have been built from
C22_Witness ==
    /\ ExcelSaveDoneUnavailable
    /\ pc = "file_done"
    /\ artifacts.json.written /\ ~artifacts.excel.written
    /\ returned = JsonFilepath
    /\ ~Workbook(extracted).raised

----------------------------------------------------------------------------
\* The record during the two saves, checked under SpecOutput.

\* process_swot_file holds the record and has not returned yet
Synthesizing ==
    /\ entry = "process_swot_file"
    /\ pc \in {"extract_done", "file_json_saved", "file_excel_saved"}

\* C23: from the end of extract_statistics on, no step of process_swot_file
\* changes the record, whether the save it makes succeeds or fails; so the
\* JSON artifact holds the record as it still is, and the workbook is the one
\* built from that same record.
C23_RecordNeverMutated ==
    /\ [][Synthesizing => extracted' = extracted]_vars
    /\ [](entry = "process_swot_file" =>
             /\ artifacts.json.written => artifacts.json.statistics = extracted
             /\ artifacts.excel.written =>
                   artifacts.excel.sheets = Workbook(extracted).sheets
             /\ (artifacts.json.written /\ artifacts.excel.written) =>
                   artifacts.excel.sheets = Workbook(artifacts.json.statistics).sheets)

\* Both artifacts written from a record that holds a located category
C23_Witness ==
    /\ Returned
    /\ artifacts.json.written /\ artifacts.excel.written
    /\ extracted # InitExtracted
    /\ artifacts.json.statistics = extracted

\* Both saves failed and the record is still what extract_statistics returned
BothSavesFailed ==
    /\ Returned
    /\ Len(invoked) = 4
    /\ ~artifacts.json.written /\ ~artifacts.excel.written
    /\ extracted # InitExtracted

----------------------------------------------------------------------------
\* The order of the calls of process_swot_file, checked under SpecOutput.

\* The calls of lines 593, 601, 627 and 630
Pipeline ==
    <<"load_swot_file", "extract_statistics", "save_extracted_statistics",
      "save_statistics_to_excel">>

\* C24: the calls process_swot_file has made are the first ones of load,
\* extract, JSON save, tabular save, each once and in that order; a call that
\* returned after the JSON save has made the tabular save too, whether or not
\* the JSON save succeeded; and it returned the JSON path when the JSON
\* artifact was written, else the tabular path when the workbook was, else None.
C24_LinearPipeline ==
    entry = "process_swot_file"
        => /\ Len(invoked) <= Len(Pipeline)
           /\ \A n \in 1..Len(invoked) : invoked[n] = Pipeline[n]
           /\ pc = "file_done"
                 => /\ Len(invoked) >= 3 => invoked = Pipeline
                    /\ returned = IF artifacts.json.written THEN JsonFilepath
                                  ELSE IF artifacts.excel.written THEN ExcelFilepath
                                  ELSE JNull

\* A call whose JSON save failed, that went on to the tabular save and
\* returned the path of the workbook
C24_Witness ==
    /\ Returned
    /\ invoked = Pipeline
    /\ json_file = JNull /\ ~artifacts.json.written
    /\ artifacts.excel.written
    /\ returned = ExcelFilepath

\* A call that made all four calls and returned None
AllCallsMadeNothingWritten ==
    /\ Returned
    /\ invoked = Pipeline
    /\ returned = JNull

----------------------------------------------------------------------------
\* Matching on the whole path, checked under SpecStatistics.

\* What the object nodes whose lowered path, from the root of data, holds a
\* keyword of the n-th count add up to, each by the count it holds
PathMatchSum(n) ==
    SumOver(NodesWithPaths(data, <<>>),
            LAMBDA nd : IF IsDict(nd.obj) /\ MatchesOf(Lower(nd.path))[n]
                        THEN PyIntUnder(nd.obj, S_count) ELSE 0)

\* C25: in a returned record each of the five counts is the sum of the counts
\* held by the object nodes in whose full dotted path, lowered, a keyword of
\* the category occurs, wherever in the path: a node below a matching key
\* counts as the node under the key itself does; and the call on the root,
\* whose path is empty, changes no count.
C25_MatchOnFullPath ==
    /\ pc = "stats_done" => \A n \in 1..5 : CountsOf(statistics)[n] = PathMatchSum(n)
    /\ (last.called /\ last.path = <<>>) => CountsOf(statistics) = CountsOf(last.before)

\* A returned record that counted a node whose own key holds no keyword of the
\* category, below a key that does
C25_Witness ==
    /\ pc = "stats_done"
    /\ \E n \in 1..5 :
          LET nodes == NodesWithPaths(data, <<>>)
          IN  \E m \in 1..Len(nodes) :
                 /\ IsDict(nodes[m].obj)
                 /\ MatchesOf(Lower(nodes[m].path))[n]
                 /\ ~MatchesOf(Lower(FinalSegment(nodes[m].path)))[n]
                 /\ PyIntUnder(nodes[m].obj, S_count) # 0
                 /\ CountsOf(statistics)[n] # 0

\* The root itself holds a count and no count of the record has changed
RootWithCountNotCounted ==
    /\ last.called /\ last.path = <<>>
    /\ IsDict(last.obj) /\ HasNumeric(last.obj, S_count)
    /\ CountsOf(statistics) = CountsOf(InitStatistics)

----------------------------------------------------------------------------
\* The integer counts, checked under SpecStatistics.

\* The count an object holds, cut to the integer between it and zero; true and
\* false stand for 1 and 0
TruncatedCount(obj) ==
    LET c == Get(obj, S_count)
    IN  IF IsNumber(c) THEN IntegerPart(c)
        ELSE IF c.t = "bool" /\ c.b THEN 1
        ELSE 0

\* The sum of the truncated counts of the object nodes matching the n-th count
TruncatedSum(n) ==
    SumOver(NodesWithPaths(data, <<>>),
            LAMBDA nd : IF IsDict(nd.obj) /\ MatchesOf(Lower(nd.path))[n]
                        THEN TruncatedCount(nd.obj) ELSE 0)

\* Twice the exact sum of the counts of the object nodes matching the n-th count
TwiceExactSum(n) ==
    SumOver(NodesWithPaths(data, <<>>),
            LAMBDA nd : IF IsDict(nd.obj) /\ MatchesOf(Lower(nd.path))[n]
                        THEN TwiceUnder(nd.obj, S_count) ELSE 0)

\* C26: in every returned record the five counts are integers, each the sum
\* over the matched nodes of the node's count truncated toward zero, and
\* total_count is the sum of fop_count and companies_count so obtained.
C26_CountsTruncatedPerNode ==
    pc = "stats_done"
        => /\ \A n \in 1..5 : /\ CountsOf(statistics)[n] \in Int
                              /\ CountsOf(statistics)[n] = TruncatedSum(n)
           /\ statistics.fop_companies.total_count \in Int
           /\ statistics.fop_companies.total_count = TruncatedSum(1) + TruncatedSum(2)

\* A returned record with a count that is the sum of the truncated counts and
\* differs from the truncation of their sum, and with a negative count that
\* was cut toward zero
C26_Witness ==
    /\ pc = "stats_done"
    /\ \E n \in 1..5 :
          /\ CountsOf(statistics)[n] = TruncatedSum(n)
          /\ 2 * CountsOf(statistics)[n] + 2 <= TwiceExactSum(n)
    /\ \E n \in 1..5 :
          /\ CountsOf(statistics)[n] = TruncatedSum(n)
          /\ TwiceExactSum(n) < 2 * CountsOf(statistics)[n]

----------------------------------------------------------------------------
\* The input document of the two extraction functions, checked under SpecTwice.

\* C27: no step of extract_statistics or of process_swot_statistics changes
\* the document it was handed; when the call has ended, the data selected from
\* the document is still the data the call worked on, the cadastr statistic
\* found in it still holds what was stripped from the record, and the Kved
\* lists gathered from it are still in it.
C27_InputNotModified ==
    /\ [][swot_data' = swot_data]_vars
    /\ [](pc = "extract_done" =>
             /\ data = ExtractData(swot_data)
             /\ found.cadastr_stat # Unset =>
                   find_field(data, S_cadastrEstateStatistic) = found.cadastr_stat)
    /\ [](pc = "stats_done" => data = StatsData(swot_data))

\* extract_statistics has returned a record whose cadastr statistic was
\* stripped of cadastrNumbers, and the document still holds them
C27_Witness ==
    /\ entry = "extract_statistics"
    /\ pc = "extract_done"
    /\ found.cadastr_stat # Unset /\ Truthy(found.cadastr_stat)
    /\ extracted.cadastr_estate_statistic # found.cadastr_stat
    /\ find_field(ExtractData(swot_data), S_cadastrEstateStatistic) = found.cadastr_stat

\* process_swot_statistics has returned a record whose Kved list lost
\* duplicates, a second time on the same document
KvedDeduplicatedTwice ==
    /\ entry = "process_swot_statistics"
    /\ pc = "stats_done"
    /\ calls = 2
    /\ statistics.kved.kved_list # <<>>
    /\ statistics = first_record

----------------------------------------------------------------------------
\* Config (config.py): the .env file and os.environ.

TOKEN_ENV_KEY ==
    <<"V", "K", "U", "R", "S", "I", "_", "A", "P", "I", "_", "T", "O", "K", "E", "N">>
EMAIL_ENV_KEY ==
    <<"V", "K", "U", "R", "S", "I", "_", "E", "M", "A", "I", "L">>
PASSWORD_ENV_KEY ==
    <<"V", "K", "U", "R", "S", "I", "_", "P", "A", "S", "S", "W", "O", "R", "D">>

\* The line feed character
LF == "u000a"

\* f.readlines(): the text cut after every line feed; the last line has none
\* when the text does not end with one
RECURSIVE readlines(_)
readlines(text) ==
    IF text = <<>> THEN <<>>
    ELSE IF \E n \in 1..Len(text) : text[n] = LF
    THEN LET n == CHOOSE n \in 1..Len(text) :
                     text[n] = LF /\ \A m \in 1..(n - 1) : text[m] # LF
         IN  <<SubSeq(text, 1, n)>> \o readlines(SubSeq(text, n + 1, Len(text)))
    ELSE <<text>>

\* f.writelines(lines): the lines one after the other, nothing added
RECURSIVE writelines(_)
writelines(lines) ==
    IF lines = <<>> THEN <<>> ELSE Head(lines) \o writelines(Tail(lines))

\* line.startswith(prefix)
StartsWith(line, prefix) ==
    Len(line) >= Len(prefix) /\ SubSeq(line, 1, Len(prefix)) = prefix

\* f"{self.TOKEN_ENV_KEY}={token}\n"
TokenLine(token_str) == TOKEN_ENV_KEY \o <<"=">> \o token_str \o <<LF>>

\* Lines 45-53: the first line that starts with the key is replaced, or a line
\* is appended
UpdatedContent(env_content, token_str) ==
    LET found_at == {i \in 1..Len(env_content) :
                        StartsWith(env_content[i], TOKEN_ENV_KEY \o <<"=">>)}
    IN  IF found_at # {}
        THEN [env_content EXCEPT
                 ![CHOOSE i \in found_at : \A j \in found_at : i <= j] =
                     TokenLine(token_str)]
        ELSE Append(env_content, TokenLine(token_str))

\* Config.save_token(token), lines 36-65.  written: reading and writing the
\* file succeed; when they do not, the exception is caught and the file is
\* taken to be as it was.  os.environ takes a str only: for another token the
\* file has been written when the assignment of line 60 raises TypeError.
save_token(file_now, environ_now, token_value, written) ==
    IF ~written
    THEN [ok |-> FALSE, env_file |-> file_now, environ |-> environ_now]
    ELSE LET env_content == IF file_now.exists THEN readlines(file_now.text) ELSE <<>>
             file_new == [exists |-> TRUE,
                          text |-> writelines(UpdatedContent(env_content,
                                                             PyStr(token_value)))]
         IN  IF token_value.t = "str"
             THEN [ok |-> TRUE, env_file |-> file_new,
                   environ |-> [environ_now EXCEPT !.token = token_value.s]]
             ELSE [ok |-> FALSE, env_file |-> file_new, environ |-> environ_now]

\* Config.get_token(): os.getenv(TOKEN_ENV_KEY, "")
get_token(environ_now) == environ_now.token

----------------------------------------------------------------------------
\* VkursiAuth.authorize (auth.py), called without arguments.

S_Token ==
    <<"T", "o", "k", "e", "n">>   \* Token
S_token ==
    <<"t", "o", "k", "e", "n">>   \* token
S_ErrorMessage ==
    <<"E", "r", "r", "o", "r", "M", "e", "s", "s", "a", "g", "e">>   \* ErrorMessage

\* What a request comes to: requests raises RequestException, or a response
\* with a status and a body that is JSON (decoded) or is not
RequestFailed == [kind |-> "exception"]
Answer(status, body) ==
    [kind |-> "response", status |-> status, json |-> TRUE, body |-> body]
AnswerNoJson(status) ==
    [kind |-> "response", status |-> status, json |-> FALSE, body |-> JNull]

\* x.get(k1) or x.get(k2)
GetEither(obj, k1, k2) == IF Truthy(Get(obj, k1)) THEN Get(obj, k1) ELSE Get(obj, k2)

\* authorize(), lines 34-93: its result, whether it sent its request, whether
\* response_data.get raised AttributeError (the body is JSON and no object),
\* and the .env file and os.environ after it
authorize(file_now, environ_now, outcome, written) ==
    LET none(requested) ==
            [raised |-> FALSE, result |-> JNull, requested |-> requested,
             env_file |-> file_now, environ |-> environ_now]
    IN  IF environ_now.email = <<>> \/ environ_now.password = <<>> THEN none(FALSE)
        ELSE IF outcome.kind = "exception" THEN none(TRUE)
        ELSE IF outcome.status # 200 THEN none(TRUE)
        ELSE IF ~outcome.json THEN none(TRUE)
        ELSE IF ~IsDict(outcome.body)
        THEN [raised |-> TRUE, result |-> JNull, requested |-> TRUE,
              env_file |-> file_now, environ |-> environ_now]
        ELSE LET new_token == GetEither(outcome.body, S_Token, S_token)
             IN  IF ~Truthy(new_token) THEN none(TRUE)
                 ELSE LET saved == save_token(file_now, environ_now, new_token, written)
                      IN  [raised |-> FALSE, result |-> new_token, requested |-> TRUE,
                           env_file |-> saved.env_file, environ |-> saved.environ]

----------------------------------------------------------------------------
\* The API clients: HromadaAPI (bus_climate.py) and HromadaEconomyAPI
\* (hromada_economy.py).

Msg403 ==
    <<"u041d", "u0435", " ", "u0432", "u0438", "u0441", "u0442", "u0430", "u0447",
      "u0430", "u0454", " ", "u043f", "u0440", "u0430", "u0432", " ", "u043d", "u0430",
      " ", "u043e", "u043f", "u0435", "u0440", "u0430", "u0446", "u0456", "u044e">>
Msg400 ==
    <<"u041f", "u043e", "u043c", "u0438", "u043b", "u043a", "u0430", " ", "u0437",
      "u0430", "u043f", "u0438", "u0442", "u0443">>
MsgEmptyParameter ==
    <<"u0412", "u0445", "u0456", "u0434", "u043d", "u0438", "u0439", " ", "u043f",
      "u0430", "u0440", "u0430", "u043c", "u0435", "u0442", "u0440", " ", "u043f",
      "u043e", "u0440", "u043e", "u0436", "u043d", "u0456", "u0439", ".">>

\* The result for a refused request: lines 208-213, 248-253 and 277-282
ErrorResult(status, error_msg) ==
    JObj(<<KV(S_status, JInt(status)), KV(S_data, JNull),
           KV(S_errorMessage, error_msg), KV(S_success, JBool(FALSE))>>)

\* not register_id or not register_id.strip()
Blank(id) == ~Truthy(id) \/ \A n \in 1..Len(id.s) : id.s[n] = " "

\* _handle_swot_response, lines 195-263: what it returns, or that
\* response_data.keys() raised AttributeError, which is no ValueError
handle_swot_response(answer) ==
    LET returns(result) == [raised |-> FALSE, result |-> result]
        response_data == answer.body
    IN  IF ~answer.json THEN returns(JNull)
        ELSE IF ~IsDict(response_data) THEN [raised |-> TRUE, result |-> JNull]
        ELSE IF answer.status = 403
        THEN returns(ErrorResult(403, GetOr(response_data, S_ErrorMessage, JStr(Msg403))))
        ELSE IF answer.status = 200
        THEN LET data_field == GetEither(response_data, S_Data, S_data)
                 error_msg == GetEither(response_data, S_ErrorMessage, S_errorMessage)
             IN  returns(JObj(<<KV(S_status, JInt(200)), KV(S_data, data_field),
                                KV(S_errorMessage,
                                   IF Truthy(error_msg) THEN error_msg ELSE JNull),
                                KV(S_success, JBool(data_field # JNull)),
                                KV(S_raw_response, response_data)>>))
        ELSE IF answer.status = 400
        THEN returns(ErrorResult(400, GetOr(response_data, S_ErrorMessage, JStr(Msg400))))
        ELSE returns(JNull)

\* The responses of the token endpoint
AuthBodies ==
    {Obj1(S_Token, JStr(<<"n">>)), Obj1(S_token, JStr(<<"m">>)),
     Obj2(S_Token, JStr(<<>>), S_token, JStr(<<"m">>)), Obj1(S_Token, JNull),
     Obj1(S_Token, JInt(5)), JObj(<<>>), JArr(<<>>), JNull}
AuthOutcomes ==
    {RequestFailed, AnswerNoJson(200), AnswerNoJson(401), Answer(401, JObj(<<>>))}
    \cup {Answer(200, body) : body \in AuthBodies}

\* The responses of the data endpoints
ListBodies == {Obj1(S_data, JInt(1)), JArr(<<>>)}
SwotBodies ==
    {Obj1(S_Data, Obj1(S_a, JInt(1))), Obj1(S_data, JArr(<<>>)),
     Obj2(S_Data, JObj(<<>>), S_data, JInt(0)), Obj2(S_Data, JNull, S_data, JNull),
     Obj2(S_Data, JInt(1), S_ErrorMessage, JStr(S_ab)),
     Obj1(S_errorMessage, JStr(S_ab)),
     Obj2(S_ErrorMessage, JStr(<<>>), S_errorMessage, JNull),
     JObj(<<>>), JArr(<<>>), JNull}
DataOutcomes(name) ==
    IF name = "get_swot_report"
    THEN {RequestFailed}
         \cup {AnswerNoJson(status) : status \in {200, 403, 500}}
         \cup {Answer(status, body) : status \in {200, 400, 401, 403}, body \in SwotBodies}
    ELSE {RequestFailed}
         \cup {AnswerNoJson(status) : status \in {200, 401}}
         \cup {Answer(status, body) : status \in {200, 401, 500}, body \in ListBodies}

\* The methods that send a data request
ListMethods == {"get_climate", "get_economy_list"}
DataMethods == ListMethods \cup {"get_swot_report"}

\* `if not self.token:` with authorize, before the request is built
\* (bus_climate.py 92-97, hromada_economy.py 87-92 and 287-292)
EnsureToken ==
    IF Truthy(token)
    THEN /\ pc' = "api_send"
         /\ UNCHANGED <<token, env_file, environ, returned, invoked>>
    ELSE \E outcome \in AuthOutcomes, written \in BOOLEAN :
            LET a == authorize(env_file, environ, outcome, written)
            IN  /\ invoked' = invoked \o <<"authorize">>
                                  \o (IF a.requested THEN <<"auth_request">> ELSE <<>>)
                /\ env_file' = a.env_file
                /\ environ' = a.environ
                /\ IF a.raised
                   THEN pc' = "api_raised" /\ UNCHANGED <<token, returned>>
                   ELSE /\ token' = a.result
                        /\ IF Truthy(a.result)
                           THEN pc' = "api_send" /\ UNCHANGED returned
                           ELSE pc' = "api_done" /\ returned' = JNull

\* HromadaAPI.get_climate (lines 89-97) and
\* HromadaEconomyAPI.get_economy_list (lines 84-92), up to the request
GetList ==
    /\ entry \in ListMethods
    /\ pc = "api_start"
    /\ EnsureToken
    /\ UNCHANGED <<swot_data, data, stack, statistics, visited, accumulated, last, found,
                   extracted, entry, calls, first_record, file, openpyxl_available,
                   json_file, excel_file, artifacts, response, register_id>>

\* HromadaEconomyAPI.get_swot_report, lines 275-292
GetSwotReport ==
    /\ entry = "get_swot_report"
    /\ pc = "api_start"
    /\ IF Blank(register_id)
       THEN /\ returned' = ErrorResult(400, JStr(MsgEmptyParameter))
            /\ pc' = "api_done"
            /\ UNCHANGED <<token, env_file, environ, invoked>>
       ELSE EnsureToken
    /\ UNCHANGED <<swot_data, data, stack, statistics, visited, accumulated, last, found,
                   extracted, entry, calls, first_record, file, openpyxl_available,
                   json_file, excel_file, artifacts, response, register_id>>

\* requests.post or requests.get with the held token (bus_climate.py 104-117,
\* hromada_economy.py 100-113 and 294-306): RequestException gives None
SendRequest ==
    /\ entry \in DataMethods
    /\ pc = "api_send"
    /\ invoked' = Append(invoked, "data_request")
    /\ \E outcome \in DataOutcomes(entry) :
          IF outcome.kind = "exception"
          THEN /\ returned' = JNull
               /\ pc' = "api_done"
               /\ UNCHANGED response
          ELSE /\ response' = outcome
               /\ pc' = "api_handle"
               /\ UNCHANGED returned
    /\ UNCHANGED <<swot_data, data, stack, statistics, visited, accumulated, last, found,
                   extracted, entry, calls, first_record, file, openpyxl_available,
                   json_file, excel_file, artifacts, token, env_file, environ,
                   register_id>>

\* _handle_response (bus_climate.py 55-73, hromada_economy.py 55-71)
HandleResponse ==
    /\ entry \in ListMethods
    /\ pc = "api_handle"
    /\ IF response.status = 401
       THEN \E outcome \in AuthOutcomes, written \in BOOLEAN :
               LET a == authorize(env_file, environ, outcome, written)
               IN  /\ invoked' = invoked \o <<"authorize">>
                                     \o (IF a.requested THEN <<"auth_request">> ELSE <<>>)
                   /\ env_file' = a.env_file
                   /\ environ' = a.environ
                   /\ IF a.raised
                      THEN pc' = "api_raised" /\ UNCHANGED <<token, returned>>
                      ELSE /\ token' = IF Truthy(a.result) THEN a.result ELSE token
                           /\ returned' = JNull
                           /\ pc' = "api_done"
       ELSE /\ returned' = IF response.status = 200 /\ response.json
                           THEN response.body ELSE JNull
            /\ pc' = "api_done"
            /\ UNCHANGED <<token, env_file, environ, invoked>>
    /\ UNCHANGED <<swot_data, data, stack, statistics, visited, accumulated, last, found,
                   extracted, entry, calls, first_record, file, openpyxl_available,
                   json_file, excel_file, artifacts, response, register_id>>

\* _handle_swot_response called at line 302
HandleSwotResponse ==
    /\ entry = "get_swot_report"
    /\ pc = "api_handle"
    /\ IF handle_swot_response(response).raised
       THEN pc' = "api_raised" /\ UNCHANGED returned
       ELSE /\ returned' = handle_swot_response(response).result
            /\ pc' = "api_done"
    /\ UNCHANGED <<swot_data, data, stack, statistics, visited, accumulated, last, found,
                   extracted, entry, calls, first_record, file, openpyxl_available,
                   json_file, excel_file, artifacts, invoked, client>>

\* Config.save_token(token) called on its own
SaveToken ==
    /\ entry = "save_token"
    /\ pc = "token_start"
    /\ invoked' = Append(invoked, "save_token")
    /\ \E written \in BOOLEAN :
          LET saved == save_token(env_file, environ, token, written)
          IN  /\ env_file' = saved.env_file
              /\ environ' = saved.environ
              /\ returned' = JBool(saved.ok)
    /\ pc' = "token_saved"
    /\ UNCHANGED <<swot_data, data, stack, statistics, visited, accumulated, last, found,
                   extracted, entry, calls, first_record, file, openpyxl_available,
                   json_file, excel_file, artifacts, token, response, register_id>>

----------------------------------------------------------------------------
\* The checked calls of the clients and of save_token.

\* the .env files hold up to MaxLines lines
MaxLines == 2

\* The lines of the .env files: token lines, the credentials, a comment that
\* names the key, an empty line
EnvLines ==
    {TOKEN_ENV_KEY \o <<"=", "o", LF>>, TOKEN_ENV_KEY \o <<"=", "p", LF>>,
     EMAIL_ENV_KEY \o <<"=", "a", LF>>, PASSWORD_ENV_KEY \o <<"=", "b", LF>>,
     <<"#">> \o TOKEN_ENV_KEY \o <<"=", "x", LF>>, <<LF>>}

\* A text without the line feed it ends with
WithoutLastLF(text) ==
    IF text # <<>> /\ text[Len(text)] = LF THEN SubSeq(text, 1, Len(text) - 1) ELSE text

\* The texts of up to MaxLines lines, the last line with or without its line feed
EnvTexts ==
    LET lines == UNION {[1..n -> EnvLines] : n \in 0..MaxLines}
    IN  {writelines(ls) : ls \in lines} \cup {WithoutLastLF(writelines(ls)) : ls \in lines}

EnvFiles == {NoEnvFile} \cup {[exists |-> TRUE, text |-> text] : text \in EnvTexts}

\* The .env files of the client calls
ClientEnvFiles ==
    {NoEnvFile,
     [exists |-> TRUE,
      text |-> writelines(<<EMAIL_ENV_KEY \o <<"=", "a", LF>>,
                            TOKEN_ENV_KEY \o <<"=", "o", LF>>>>)],
     [exists |-> TRUE, text |-> PASSWORD_ENV_KEY \o <<"=", "b">>]}

Environs ==
    {[token |-> t, email |-> e, password |-> p] :
        t \in {<<>>, <<"o">>}, e \in {<<>>, <<"a">>}, p \in {<<"b">>}}

InitClientCall ==
    /\ entry \in DataMethods
    /\ pc = "api_start"
    /\ token \in {JNull, JStr(<<>>), JStr(<<"o">>)}
    /\ env_file \in ClientEnvFiles
    /\ environ \in Environs
    /\ register_id \in IF entry = "get_swot_report"
                       THEN {JStr(<<>>), JStr(<<" ">>), JStr(<<" ", "7">>), JStr(<<"7">>)}
                       ELSE {JNull}

InitSaveToken ==
    /\ entry = "save_token"
    /\ pc = "token_start"
    /\ token \in {JStr(<<"t">>), JStr(<<"o">>), JStr(<<>>)}
    /\ env_file \in EnvFiles
    /\ environ \in {[token |-> <<>>, email |-> <<"a">>, password |-> <<"b">>],
                    [token |-> <<"o">>, email |-> <<>>, password |-> <<>>]}
    /\ register_id = JNull

InitApi ==
    /\ swot_data = JNull
    /\ file = NoFile
    /\ openpyxl_available = TRUE
    /\ response = NoResponse
    /\ InitCall
    /\ InitClientCall \/ InitSaveToken

NextApi ==
    \/ GetList
    \/ GetSwotReport
    \/ SendRequest
    \/ HandleResponse
    \/ HandleSwotResponse
    \/ SaveToken

SpecApi == InitApi /\ [][NextApi]_vars

----------------------------------------------------------------------------
\* C28: what get_climate and get_economy_list do with a 401.

\* How many times a call appears in the record of calls
Times(called, name) == Cardinality({n \in 1..Len(called) : called[n] = name})

\* _handle_response is about to handle a 401
Handling401 == entry \in ListMethods /\ pc = "api_handle" /\ response.status = 401

\* C28: on a 401, _handle_response of either client calls authorize exactly
\* once, replaces the held token only by a new token that was obtained, keeps
\* the old token otherwise, and returns None without sending the request
\* again; a get_climate or get_economy_list call sends at most one data
\* request and returns no data after a 401.
C28_On401AuthorizeOnceReturnNone ==
    /\ [][Handling401 =>
            /\ pc' = "api_done"
            /\ returned' = JNull
            /\ Times(invoked', "authorize") = Times(invoked, "authorize") + 1
            /\ Times(invoked', "data_request") = Times(invoked, "data_request")
            /\ token' # token => Truthy(token')]_vars
    /\ [](entry \in ListMethods =>
            /\ Times(invoked, "data_request") <= 1
            /\ pc = "api_done" /\ response # NoResponse /\ response.status = 401
                  => returned = JNull)

\* On a 401, authorize is called once and no request is sent again; the call
\* ends with None or with the AttributeError of authorize, which it raises
\* when the token endpoint answers 200 with JSON that is no object; the held
\* token changes only to a new token
On401NoneOrAttributeError ==
    /\ [][Handling401 =>
            /\ pc' \in {"api_done", "api_raised"}
            /\ pc' = "api_done" => returned' = JNull
            /\ pc' = "api_raised" => token' = token /\ returned' = returned
            /\ Times(invoked', "authorize") = Times(invoked, "authorize") + 1
            /\ Times(invoked', "auth_request") <= Times(invoked, "auth_request") + 1
            /\ Times(invoked', "data_request") = Times(invoked, "data_request")
            /\ token' # token => Truthy(token')]_vars
    /\ [](entry \in ListMethods =>
            /\ Times(invoked, "data_request") <= 1
            /\ pc = "api_done" /\ response # NoResponse /\ response.status = 401
                  => returned = JNull)

\* A 401 was answered with an AttributeError out of authorize
Raised401 ==
    /\ entry \in ListMethods
    /\ pc = "api_raised"
    /\ response # NoResponse
    /\ response.status = 401
    /\ invoked = <<"data_request", "authorize", "auth_request">>

\* A 401 was answered with None and a new token
Refreshed401 ==
    /\ entry \in ListMethods
    /\ pc = "api_done"
    /\ response # NoResponse
    /\ response.status = 401
    /\ returned = JNull
    /\ token = JStr(<<"n">>)
    /\ invoked = <<"data_request", "authorize", "auth_request">>

----------------------------------------------------------------------------
\* C29: what a successful save_token leaves of the .env file.

\* The lines of a .env file; none when the file does not exist
LinesOf(f) == IF f.exists THEN readlines(f.text) ELSE <<>>

\* The places of the lines that start with VKURSI_API_TOKEN=
TokenLines(lines) ==
    {n \in 1..Len(lines) : StartsWith(lines[n], TOKEN_ENV_KEY \o <<"=">>)}

\* The token line replaced in place, or one token line appended, every other
\* line as it was and where it was
OnlyTokenLineChanged(before, after, token_str) ==
    IF TokenLines(before) # {}
    THEN LET first == CHOOSE n \in TokenLines(before) :
                         \A m \in TokenLines(before) : n <= m
         IN  /\ Len(after) = Len(before)
             /\ after[first] = TokenLine(token_str)
             /\ \A n \in 1..Len(before) : n # first => after[n] = before[n]
    ELSE /\ Len(after) = Len(before) + 1
         /\ after[Len(after)] = TokenLine(token_str)
         /\ \A n \in 1..Len(before) : after[n] = before[n]

\* save_token is about to run and will return True
SaveTokenSucceeds ==
    entry = "save_token" /\ pc = "token_start" /\ pc' = "token_saved"
    /\ returned' = JBool(TRUE)

\* The file has no token line and its last line has no line feed
LastLineOpen(f) ==
    /\ f.exists
    /\ f.text # <<>>
    /\ f.text[Len(f.text)] # LF
    /\ TokenLines(readlines(f.text)) = {}

\* C29: a successful save_token(token) leaves every line of the .env file
\* other than the token line unchanged and in place; the first
\* VKURSI_API_TOKEN line is replaced in place, or else exactly one token line
\* is appended; get_token() then returns the saved token.
C29_OnlyTokenLineChanged ==
    [][SaveTokenSucceeds =>
          /\ OnlyTokenLineChanged(LinesOf(env_file), LinesOf(env_file'), token.s)
          /\ get_token(environ') = token.s]_vars

\* The same for every file but one whose last line has no line feed and
\* which has no token line: there the token line is written onto the end of
\* the last line, which is the only line changed
OnlyTokenLineChangedUnlessLastLineOpen ==
    [][SaveTokenSucceeds =>
          /\ get_token(environ') = token.s
          /\ IF LastLineOpen(env_file)
             THEN LET before == LinesOf(env_file)
                      after == LinesOf(env_file')
                  IN  /\ Len(after) = Len(before)
                      /\ after[Len(after)] = before[Len(before)] \o TokenLine(token.s)
                      /\ \A n \in 1..(Len(before) - 1) : after[n] = before[n]
             ELSE OnlyTokenLineChanged(LinesOf(env_file), LinesOf(env_file'),
                                       token.s)]_vars

\* The token was written onto the end of the password line
TokenGluedToPassword ==
    /\ entry = "save_token"
    /\ pc = "token_saved"
    /\ returned = JBool(TRUE)
    /\ LinesOf(env_file) =
          <<EMAIL_ENV_KEY \o <<"=", "a", LF>>,
            PASSWORD_ENV_KEY \o <<"=", "b">> \o TOKEN_ENV_KEY \o <<"=", "t", LF>>>>

\* The first of two token lines was replaced, the second kept
FirstTokenLineReplaced ==
    /\ entry = "save_token"
    /\ pc = "token_saved"
    /\ returned = JBool(TRUE)
    /\ LinesOf(env_file) =
          <<TOKEN_ENV_KEY \o <<"=", "t", LF>>, TOKEN_ENV_KEY \o <<"=", "p">>>>
    /\ get_token(environ) = <<"t">>

----------------------------------------------------------------------------
\* C30: the result of get_swot_report.

\* get_swot_report has handled a response that held JSON
SwotHandled(status) ==
    /\ entry = "get_swot_report"
    /\ pc \in {"api_done", "api_raised"}
    /\ response # NoResponse
    /\ response.json
    /\ response.status = status

\* A result with success false and data null
Refused(result) ==
    /\ IsDict(result)
    /\ Get(result, S_success) = JBool(FALSE)
    /\ Get(result, S_data) = JNull

\* get_swot_report was called with an empty register_id and has returned
EmptyIdReturned ==
    entry = "get_swot_report" /\ pc = "api_done" /\ Blank(register_id)

\* C30: for every 200 SWOT response the result has success = true exactly
\* when its data field is non-null, whether or not there is an error message;
\* for 403 and 400 responses and for an empty register_id the result has
\* success = false and data = null; for an empty register_id no
\* authorization and no request is made.
C30_SuccessIffData ==
    /\ SwotHandled(200) =>
          /\ pc = "api_done"
          /\ IsDict(returned)
          /\ Get(returned, S_success) = JBool(Get(returned, S_data) # JNull)
    /\ SwotHandled(403) \/ SwotHandled(400) => pc = "api_done" /\ Refused(returned)
    /\ entry = "get_swot_report" /\ Blank(register_id) =>
          /\ invoked = <<>>
          /\ pc = "api_done" => Refused(returned)

\* The same for the responses whose JSON is an object, with the data field
\* `Data` when that is truthy and `data` otherwise; a response whose JSON is
\* no object ends the call with the AttributeError of response_data.keys()
SuccessIffDataOrAttributeError ==
    /\ \A status \in {200, 400, 403} : SwotHandled(status) =>
          IF IsDict(response.body)
          THEN /\ pc = "api_done"
               /\ IF status = 200
                  THEN /\ IsDict(returned)
                       /\ Get(returned, S_data)
                             = GetEither(response.body, S_Data, S_data)
                       /\ Get(returned, S_success)
                             = JBool(Get(returned, S_data) # JNull)
                  ELSE Refused(returned)
          ELSE pc = "api_raised"
    /\ entry = "get_swot_report" /\ Blank(register_id) =>
          /\ invoked = <<>>
          /\ pc = "api_done" => Refused(returned) /\ Get(returned, S_status) = JInt(400)

\* A 200 response whose JSON is a list ended the call with AttributeError
SwotRaisedOnList == SwotHandled(200) /\ response.body = JArr(<<>>) /\ pc = "api_raised"

\* A 200 response with data and an error message gave success = true
SuccessWithErrorMessage ==
    /\ SwotHandled(200)
    /\ pc = "api_done"
    /\ Get(returned, S_success) = JBool(TRUE)
    /\ Get(returned, S_errorMessage) = JStr(S_ab)

\* An empty register_id was refused without a call
EmptyIdRefused == EmptyIdReturned /\ register_id = JStr(<<" ">>) /\ token = JNull

============================================================================
